---- MODULE Spec2Model ----
(***************************************************************************)
(* Cycle-phase inference and prediction engine of the offline period       *)
(* tracker.  Two variants of the engine exist in the repository: the one   *)
(* the calendar uses (lib/cycle, 365-day horizon, fertile window shown as  *)
(* a ring, not a phase) and the one appended to lib/db-web.ts (FERTILE is  *)
(* a phase, luteal starts at ovulation + 2).  Definitions of the second    *)
(* variant carry the suffix Web.                                           *)
(*                                                                         *)
(* A JavaScript Date is an instant.  It is modelled as an integer number   *)
(* of ticks, TicksPerDay ticks to a calendar day, tick 0 of a day being    *)
(* local midnight.  A 'yyyy-MM-dd' string is modelled by its day number.   *)
(* An optional value (null / undefined) is the empty sequence, a present   *)
(* value v is <<v>>.                                                       *)
(***************************************************************************)
EXTENDS Integers, Sequences, FiniteSets, TLC

VARIABLES cycles, ovulationMarkers, now, op, args, result,
          store, svc, app, calls

vars == <<cycles, ovulationMarkers, now, op, args, result, store, svc, app, calls>>

(***************************************************************************)
(* Bounds of the model                                                     *)
(***************************************************************************)
TicksPerDay == 2
MaxStart == 2
MaxCycles == 2
MaxPeriodSpan == 1
MaxMarkerOffset == 3
MinLen == 12
MaxLen == 22
MaxAvgPeriod == 2
MaxBack == 1
MaxStatCycles == 8
MaxDurCycles == 7
MaxCorrCycles == 2
MaxLogEntries == 3
MaxNowDay == 40

(***************************************************************************)
(* Program constants                                                       *)
(***************************************************************************)
\* Mutant: another default.
DEFAULT_CYCLE_LENGTH_thirty == 28 + 2

DEFAULT_CYCLE_LENGTH == 28
DEFAULT_PERIOD_LENGTH == 5
OVULATION_OFFSET == 14
FERTILE_WINDOW_BEFORE == 4
FERTILE_WINDOW_AFTER == 1
FERTILE_WINDOW_BEFORE_Web == 5
LUTEAL_OFFSET_Web == 2
PREDICTION_HORIZON == 365
MAX_INTERVAL == 60
AVERAGE_WINDOW_CYCLES == 7
AVERAGE_WINDOW_INTERVALS == 6
STATS_MAX_CYCLES == 6

MENSTRUAL == "menstrual"
FOLLICULAR == "follicular"
FERTILE == "fertile"
OVULATION == "ovulation"
LUTEAL == "luteal"
Null == "null"

Phases == {MENSTRUAL, FOLLICULAR, FERTILE, OVULATION, LUTEAL}

Absent == <<>>
Some(v) == <<v>>
IsPresent(o) == o # <<>>
Get(o) == o[1]

(***************************************************************************)
(* date-fns                                                                *)
(***************************************************************************)
parseISO(s) == s * TicksPerDay

startOfDay(t) == t - (t % TicksPerDay)

addDays(t, n) == t + n * TicksPerDay

isSameDay(a, b) == startOfDay(a) = startOfDay(b)

isAfter(a, b) == a > b

\* Valid intervals only (start <= end): every caller in the engine passes one.
isWithinInterval(t, start, end) == t >= start /\ t <= end

\* Number of full days between two instants, truncated toward zero.
differenceInDays(a, b) ==
  IF a >= b THEN (a - b) \div TicksPerDay ELSE 0 - ((b - a) \div TicksPerDay)

format(t) == startOfDay(t) \div TicksPerDay

\* JavaScript's % : the remainder takes the sign of the dividend.
JsRem(a, b) == IF a >= 0 THEN a % b ELSE 0 - ((0 - a) % b)

(***************************************************************************)
(* [...cycles].sort(by period_start_date): Array.prototype.sort is stable  *)
(***************************************************************************)
RECURSIVE InsertDesc(_, _)
InsertDesc(c, s) ==
  IF s = <<>> THEN <<c>>
  ELSE IF parseISO(Head(s).period_start_date) >= parseISO(c.period_start_date)
       THEN <<Head(s)>> \o InsertDesc(c, Tail(s))
       ELSE <<c>> \o s

RECURSIVE SortDesc(_)
SortDesc(s) ==
  IF s = <<>> THEN <<>>
  ELSE InsertDesc(s[Len(s)], SortDesc(SubSeq(s, 1, Len(s) - 1)))

RECURSIVE InsertAsc(_, _)
InsertAsc(c, s) ==
  IF s = <<>> THEN <<c>>
  ELSE IF parseISO(Head(s).period_start_date) <= parseISO(c.period_start_date)
       THEN <<Head(s)>> \o InsertAsc(c, Tail(s))
       ELSE <<c>> \o s

RECURSIVE SortAsc(_)
SortAsc(s) ==
  IF s = <<>> THEN <<>>
  ELSE InsertAsc(s[Len(s)], SortAsc(SubSeq(s, 1, Len(s) - 1)))

(***************************************************************************)
(* The app around the engine: localStorage, the database service, the PIN  *)
(* context and the asynchronous calls in flight.  The engine               *)
(* specifications leave all of it idle.                                    *)
(***************************************************************************)
\* localStorage: the record collections (a missing key reads as an empty
\* array), the keys that hold a JSON value that is not an array, the
\* pt_initialized flag and the PIN hash.
EmptyStore ==
  [cycles |-> <<>>, symptoms |-> <<>>, custom_symptom_types |-> <<>>,
   day_notes |-> <<>>, ovulation_markers |-> <<>>, junk |-> {},
   initialized |-> FALSE, pin_hash |-> Absent]

\* The fields of a WebDatabaseService instance after construction.
FreshService ==
  [isInitialized |-> FALSE,
   nextIds |-> [cycles |-> 1, symptoms |-> 1, custom_symptom_types |-> 1,
                day_notes |-> 1, ovulation_markers |-> 1]]

\* AppProvider state after mount with no PIN stored; hidden is
\* document.visibilityState === 'hidden'.
FreshApp == [isUnlocked |-> FALSE, isFirstLaunch |-> TRUE, hidden |-> FALSE]

IdleApp ==
  /\ store = EmptyStore
  /\ svc = FreshService
  /\ app = FreshApp
  /\ calls = <<>>

(***************************************************************************)
(* Cycle statistics                                                        *)
(***************************************************************************)
RECURSIVE Sum(_)
Sum(s) == IF s = <<>> THEN 0 ELSE Head(s) + Sum(Tail(s))

RECURSIVE MathMin(_)
MathMin(s) ==
  IF Len(s) = 1 THEN s[1]
  ELSE LET m == MathMin(Tail(s)) IN IF Head(s) < m THEN Head(s) ELSE m

RECURSIVE MathMax(_)
MathMax(s) ==
  IF Len(s) = 1 THEN s[1]
  ELSE LET m == MathMax(Tail(s)) IN IF Head(s) > m THEN Head(s) ELSE m

\* Math.round(sum / n): the nearest integer, halves rounded up.
MathRoundDiv(sum, n) == (2 * sum + n) \div (2 * n)

\* array.slice(0, n)
slice(s, n) == SubSeq(s, 1, IF n < Len(s) THEN n ELSE Len(s))

\* Mutant: an interval of exactly 60 days is accepted.
isPlausibleLength_sixty(length) == length > 0 /\ length < MAX_INTERVAL + 1

\* length > 0 && length < 60
isPlausibleLength(length) == length > 0 /\ length < MAX_INTERVAL

\* The loop over consecutive starts of the recent cycles (newest first).
RECURSIVE collectCycleLengths(_, _, _, _)
collectCycleLengths(recentCycles, i, cycleLengths, maxIntervals) ==
  IF ~(i < Len(recentCycles) /\ Len(cycleLengths) < maxIntervals) THEN cycleLengths
  ELSE LET currentStart == parseISO(recentCycles[i].period_start_date)
           previousStart == parseISO(recentCycles[i + 1].period_start_date)
           length == differenceInDays(currentStart, previousStart)
       IN  collectCycleLengths(recentCycles, i + 1,
             IF isPlausibleLength(length) THEN Append(cycleLengths, length)
             ELSE cycleLengths,
             maxIntervals)

\* Mutant: one more cycle is consulted.
recentCyclesForAverage_eight(cs) == slice(SortDesc(cs), AVERAGE_WINDOW_CYCLES + 1)

\* sortedCycles.slice(0, 7) of the descending sort
recentCyclesForAverage(cs) == slice(SortDesc(cs), AVERAGE_WINDOW_CYCLES)

calculateAverageCycleLength(cs) ==
  IF Len(cs) < 2 THEN DEFAULT_CYCLE_LENGTH
  ELSE LET cycleLengths ==
             collectCycleLengths(recentCyclesForAverage(cs), 1, <<>>,
                                 AVERAGE_WINDOW_INTERVALS)
       IN  IF Len(cycleLengths) = 0 THEN DEFAULT_CYCLE_LENGTH
           ELSE MathRoundDiv(Sum(cycleLengths), Len(cycleLengths))

\* Mutant: every interval of the history is used, as getCycleLengthVariation
\* does.
getCycleLengthStats_noWindow(cs, maxCycles) ==
  IF Len(cs) < 2 THEN Absent
  ELSE LET cycleLengths == collectCycleLengths(SortDesc(cs), 1, <<>>, Len(cs))
       IN  IF Len(cycleLengths) = 0 THEN Absent
           ELSE Some([min |-> MathMin(cycleLengths),
                      max |-> MathMax(cycleLengths),
                      avg |-> MathRoundDiv(Sum(cycleLengths), Len(cycleLengths))])

getCycleLengthStats(cs, maxCycles) ==
  IF Len(cs) < 2 THEN Absent
  ELSE LET recentCycles == slice(SortDesc(cs), maxCycles + 1)
           cycleLengths == collectCycleLengths(recentCycles, 1, <<>>, maxCycles)
       IN  IF Len(cycleLengths) = 0 THEN Absent
           ELSE Some([min |-> MathMin(cycleLengths),
                      max |-> MathMax(cycleLengths),
                      avg |-> MathRoundDiv(Sum(cycleLengths), Len(cycleLengths))])

(***************************************************************************)
(* Period-duration statistics                                              *)
(***************************************************************************)
calculatePeriodDuration(cycle) ==
  IF ~IsPresent(cycle.period_end_date) THEN DEFAULT_PERIOD_LENGTH
  ELSE LET start == parseISO(cycle.period_start_date)
           end == parseISO(Get(cycle.period_end_date))
           duration == differenceInDays(end, start) + 1
       IN  IF duration > 0 THEN duration ELSE DEFAULT_PERIOD_LENGTH

\* cycles.filter((c) => c.period_end_date)
cyclesWithEndOf(cs) == SelectSeq(cs, LAMBDA c : IsPresent(c.period_end_date))

\* cycles.map(calculatePeriodDuration)
durationsOf(cs) == [k \in 1..Len(cs) |-> calculatePeriodDuration(cs[k])]

calculateAveragePeriodDuration(cs) ==
  LET cyclesWithEnd == cyclesWithEndOf(cs)
  IN  IF Len(cyclesWithEnd) = 0 THEN Absent
      ELSE LET durations == durationsOf(cyclesWithEnd)
           IN  Some(MathRoundDiv(Sum(durations), Len(durations)))

\* Mutant: every cycle with an end date is used.
getPeriodDurationStats_noWindow(cs, maxCycles) ==
  LET cyclesWithEnd == cyclesWithEndOf(cs)
  IN  IF Len(cyclesWithEnd) = 0 THEN Absent
      ELSE LET durations == durationsOf(SortDesc(cyclesWithEnd))
           IN  Some([min |-> MathMin(durations),
                     max |-> MathMax(durations),
                     avg |-> MathRoundDiv(Sum(durations), Len(durations))])

getPeriodDurationStats(cs, maxCycles) ==
  LET cyclesWithEnd == cyclesWithEndOf(cs)
  IN  IF Len(cyclesWithEnd) = 0 THEN Absent
      ELSE LET recentCycles == slice(SortDesc(cyclesWithEnd), maxCycles)
               durations == durationsOf(recentCycles)
           IN  IF Len(durations) = 0 THEN Absent
               ELSE Some([min |-> MathMin(durations),
                          max |-> MathMax(durations),
                          avg |-> MathRoundDiv(Sum(durations), Len(durations))])

(***************************************************************************)
(* Ovulation and fertile window                                            *)
(***************************************************************************)
\* Mutant: the marker's date is used whether or not it is confirmed.
getOvulationDate_anyMarker(cycleStartDate, cycleLength, confirmedOvulation) ==
  IF IsPresent(confirmedOvulation)
  THEN parseISO(Get(confirmedOvulation).date)
  ELSE addDays(parseISO(cycleStartDate), cycleLength - OVULATION_OFFSET)

getOvulationDate(cycleStartDate, cycleLength, confirmedOvulation) ==
  IF IsPresent(confirmedOvulation) /\ Get(confirmedOvulation).is_confirmed
  THEN parseISO(Get(confirmedOvulation).date)
  ELSE addDays(parseISO(cycleStartDate), cycleLength - OVULATION_OFFSET)

getFertileWindow(ovulationDate) ==
  [start |-> addDays(ovulationDate, 0 - FERTILE_WINDOW_BEFORE),
   end |-> addDays(ovulationDate, FERTILE_WINDOW_AFTER)]

getFertileWindowWeb(ovulationDate) ==
  [start |-> addDays(ovulationDate, 0 - FERTILE_WINDOW_BEFORE_Web),
   end |-> addDays(ovulationDate, FERTILE_WINDOW_AFTER)]

\* Mutant: without an end date the period lasts one day more.
periodEndOf_long(cycle) ==
  IF IsPresent(cycle.period_end_date)
  THEN parseISO(Get(cycle.period_end_date))
  ELSE addDays(parseISO(cycle.period_start_date), DEFAULT_PERIOD_LENGTH)

periodEndOf(cycle) ==
  IF IsPresent(cycle.period_end_date)
  THEN parseISO(Get(cycle.period_end_date))
  ELSE addDays(parseISO(cycle.period_start_date), DEFAULT_PERIOD_LENGTH - 1)

\* Mutant: the same-day test on the period's last day is missing.
isMenstrual_noEndDay(date, cycle) ==
  \/ isWithinInterval(date, startOfDay(parseISO(cycle.period_start_date)),
                      startOfDay(periodEndOf(cycle)))
  \/ isSameDay(date, parseISO(cycle.period_start_date))

isMenstrual(date, cycle) ==
  \/ isWithinInterval(date, startOfDay(parseISO(cycle.period_start_date)),
                      startOfDay(periodEndOf(cycle)))
  \/ isSameDay(date, parseISO(cycle.period_start_date))
  \/ isSameDay(date, periodEndOf(cycle))

\* Mutant: the most recent cycle ends one day early.
cycleEndOf_short(cycle, nextCycleStart, cycleLength) ==
  IF IsPresent(nextCycleStart)
  THEN Get(nextCycleStart)
  ELSE addDays(parseISO(cycle.period_start_date), cycleLength - 2)

cycleEndOf(cycle, nextCycleStart, cycleLength) ==
  IF IsPresent(nextCycleStart)
  THEN Get(nextCycleStart)
  ELSE addDays(parseISO(cycle.period_start_date), cycleLength - 1)

(***************************************************************************)
(* Phase classifier                                                        *)
(***************************************************************************)
\* Mutant: the fertile window is a phase of its own, as in the other variant.
afterOvulationCheck_fertile(date, periodEnd, ovulationDate, cycleEnd) ==
  IF isWithinInterval(date, startOfDay(getFertileWindow(ovulationDate).start),
                      startOfDay(getFertileWindow(ovulationDate).end)) THEN FERTILE
  ELSE IF date > periodEnd /\ date < ovulationDate THEN FOLLICULAR
  ELSE IF date > ovulationDate /\ date <= cycleEnd THEN LUTEAL
  ELSE Null

\* The classifier's last two rules: follicular, then luteal, else no phase.
afterOvulationCheck(date, periodEnd, ovulationDate, cycleEnd) ==
  IF date > periodEnd /\ date < ovulationDate THEN FOLLICULAR
  ELSE IF date > ovulationDate /\ date <= cycleEnd THEN LUTEAL
  ELSE Null

getPhaseForDate(date, currentCycle, nextCycleStart, cycleLength, ovulationMarker) ==
  IF ~IsPresent(currentCycle) THEN Null
  ELSE LET cycle == Get(currentCycle)
           periodEnd == periodEndOf(cycle)
           ovulationDate ==
             getOvulationDate(cycle.period_start_date, cycleLength, ovulationMarker)
           cycleEnd == cycleEndOf(cycle, nextCycleStart, cycleLength)
       IN  IF isMenstrual(date, cycle) THEN MENSTRUAL
           ELSE IF isSameDay(date, ovulationDate) THEN OVULATION
           ELSE afterOvulationCheck(date, periodEnd, ovulationDate, cycleEnd)

getPhaseForDateWeb(date, currentCycle, nextCycleStart, cycleLength, ovulationMarker) ==
  IF ~IsPresent(currentCycle) THEN Null
  ELSE LET cycle == Get(currentCycle)
           periodEnd == periodEndOf(cycle)
           ovulationDate ==
             getOvulationDate(cycle.period_start_date, cycleLength, ovulationMarker)
           fertileWindow == getFertileWindowWeb(ovulationDate)
           lutealStart == addDays(ovulationDate, LUTEAL_OFFSET_Web)
           cycleEnd == cycleEndOf(cycle, nextCycleStart, cycleLength)
       IN  IF isMenstrual(date, cycle) THEN MENSTRUAL
           ELSE IF isSameDay(date, ovulationDate) THEN OVULATION
           ELSE IF isWithinInterval(date, startOfDay(fertileWindow.start),
                                    startOfDay(fertileWindow.end)) THEN FERTILE
           ELSE IF date > periodEnd /\ date < fertileWindow.start THEN FOLLICULAR
           ELSE IF date >= lutealStart /\ date <= cycleEnd THEN LUTEAL
           ELSE Null

(***************************************************************************)
(* Symptom correlator                                                      *)
(***************************************************************************)
\* A range { start, end } or null (Absent).
getPhaseDateRange(cycle, phase, cycleLength, nextCycleStart) ==
  LET periodStart == parseISO(cycle.period_start_date)
      periodEnd ==
        IF IsPresent(cycle.period_end_date)
        THEN parseISO(Get(cycle.period_end_date))
        ELSE addDays(periodStart, DEFAULT_PERIOD_LENGTH - 1)
      ovulationDate == addDays(periodStart, cycleLength - OVULATION_OFFSET)
      fertileWindow == getFertileWindow(ovulationDate)
      cycleEnd ==
        IF IsPresent(nextCycleStart) THEN addDays(Get(nextCycleStart), -1)
        ELSE addDays(periodStart, cycleLength - 1)
  IN  CASE phase = MENSTRUAL -> Some([start |-> periodStart, end |-> periodEnd])
        [] phase = FOLLICULAR ->
             LET follicularStart == addDays(periodEnd, 1)
                 follicularEnd == addDays(fertileWindow.start, -1)
             IN  IF follicularStart > follicularEnd THEN Absent
                 ELSE Some([start |-> follicularStart, end |-> follicularEnd])
        [] phase = FERTILE ->
             Some([start |-> fertileWindow.start, end |-> addDays(ovulationDate, -1)])
        [] phase = OVULATION ->
             Some([start |-> ovulationDate, end |-> ovulationDate])
        [] phase = LUTEAL ->
             Some([start |-> addDays(ovulationDate, 2), end |-> cycleEnd])
        [] OTHER -> Absent

\* The while loop: one formatted date per day from range.start while
\* current <= range.end.
RECURSIVE datesFrom(_, _, _)
datesFrom(current, end, dates) ==
  IF current <= end
  THEN datesFrom(addDays(current, 1), end, Append(dates, format(current)))
  ELSE dates

getPhaseDates(cycle, phase, cycleLength, nextCycleStart) ==
  LET range == getPhaseDateRange(cycle, phase, cycleLength, nextCycleStart)
  IN  IF ~IsPresent(range) THEN <<>>
      ELSE datesFrom(Get(range).start, Get(range).end, <<>>)

\* new Set(phaseDates)
SetOf(seq) == {seq[k] : k \in 1..Len(seq)}

\* symptomCounts[type] = (symptomCounts[type] || 0) + 1, the keys kept in
\* insertion order.
increment(symptomCounts, type) ==
  IF \E j \in 1..Len(symptomCounts) : symptomCounts[j].symptom = type
  THEN LET j == CHOOSE j \in 1..Len(symptomCounts) : symptomCounts[j].symptom = type
       IN  [symptomCounts EXCEPT ![j].occurrences = @ + 1]
  ELSE Append(symptomCounts, [symptom |-> type, occurrences |-> 1])

\* symptoms.forEach over one cycle's phase dates
RECURSIVE countSymptoms(_, _, _, _)
countSymptoms(symptomCounts, symptoms, k, phaseDateSet) ==
  IF k > Len(symptoms) THEN symptomCounts
  ELSE IF symptoms[k].date \in phaseDateSet
       THEN countSymptoms(increment(symptomCounts, symptoms[k].symptom_type),
              symptoms, k + 1, phaseDateSet)
       ELSE countSymptoms(symptomCounts, symptoms, k + 1, phaseDateSet)

\* The loop over the recent cycles (most recent first); the cycle before in
\* the list is the next one in time.
RECURSIVE countCycles(_, _, _, _, _, _)
countCycles(recentCycles, i, symptomCounts, phase, symptoms, cycleLength) ==
  IF i > Len(recentCycles) THEN symptomCounts
  ELSE LET cycle == recentCycles[i]
           nextCycleStart ==
             IF i > 1 THEN Some(parseISO(recentCycles[i - 1].period_start_date))
             ELSE Absent
           phaseDates == getPhaseDates(cycle, phase, cycleLength, nextCycleStart)
       IN  countCycles(recentCycles, i + 1,
             countSymptoms(symptomCounts, symptoms, 1, SetOf(phaseDates)),
             phase, symptoms, cycleLength)

\* .sort((a, b) => b.occurrences - a.occurrences), stable
RECURSIVE InsertByOccurrences(_, _)
InsertByOccurrences(sorted, x) ==
  IF sorted = <<>> THEN <<x>>
  ELSE IF Head(sorted).occurrences >= x.occurrences
       THEN <<Head(sorted)>> \o InsertByOccurrences(Tail(sorted), x)
       ELSE <<x>> \o sorted

RECURSIVE SortByOccurrences(_)
SortByOccurrences(s) ==
  IF s = <<>> THEN <<>>
  ELSE InsertByOccurrences(SortByOccurrences(SubSeq(s, 1, Len(s) - 1)), s[Len(s)])

getSymptomsForPhaseHistory(phase, cs, symptoms, cycleLength, maxCycles) ==
  IF Len(cs) = 0 THEN <<>>
  ELSE LET recentCycles == slice(SortDesc(cs), maxCycles)
           symptomCounts ==
             countCycles(recentCycles, 1, <<>>, phase, symptoms, cycleLength)
           cycleCount == Len(recentCycles)
       IN  SortByOccurrences(
             [j \in 1..Len(symptomCounts) |->
               [symptom |-> symptomCounts[j].symptom,
                occurrences |-> symptomCounts[j].occurrences,
                percentage |->
                  MathRoundDiv(symptomCounts[j].occurrences * 100, cycleCount)]])

(***************************************************************************)
(* Forward predictor                                                       *)
(***************************************************************************)
\* Mutant: luteal starts two days after ovulation, as in the other variant.
phaseOfDayInCycle_lateLuteal(dayInCycle, cycleLength, averagePeriodLength) ==
  LET ovulationDay == cycleLength - OVULATION_OFFSET
  IN  IF dayInCycle < averagePeriodLength THEN MENSTRUAL
      ELSE IF dayInCycle = ovulationDay THEN OVULATION
      ELSE IF dayInCycle >= averagePeriodLength /\ dayInCycle < ovulationDay
           THEN FOLLICULAR
      ELSE IF dayInCycle > ovulationDay + 1 THEN LUTEAL
      ELSE Null

\* The classification by position in the projected cycle.
phaseOfDayInCycle(dayInCycle, cycleLength, averagePeriodLength) ==
  LET ovulationDay == cycleLength - OVULATION_OFFSET
  IN  IF dayInCycle < averagePeriodLength THEN MENSTRUAL
      ELSE IF dayInCycle = ovulationDay THEN OVULATION
      ELSE IF dayInCycle >= averagePeriodLength /\ dayInCycle < ovulationDay
           THEN FOLLICULAR
      ELSE IF dayInCycle > ovulationDay THEN LUTEAL
      ELSE Null

\* Mutant: the horizon is counted from the current instant, not from the
\* start of the current day.
maxPredictionDateOf_fromNow(clock) == addDays(clock, PREDICTION_HORIZON)

\* today = startOfDay(new Date()); maxPredictionDate = addDays(today, 365)
maxPredictionDateOf(clock) == addDays(startOfDay(clock), PREDICTION_HORIZON)

\* Mutant: prediction needs two recorded cycles.
hasNoHistory_two(cs) == Len(cs) < 2

\* cycles.length === 0
hasNoHistory(cs) == Len(cs) = 0

\* clock is the value of new Date() when the function runs.
getPredictedPhaseForDate(date, cs, cycleLength, averagePeriodLength, clock) ==
  IF hasNoHistory(cs) THEN Null
  ELSE LET maxPredictionDate == maxPredictionDateOf(clock)
           lastCycle == SortDesc(cs)[1]
           lastPeriodStart == parseISO(lastCycle.period_start_date)
           daysSinceLastPeriod == differenceInDays(date, lastPeriodStart)
       IN  IF date > maxPredictionDate THEN Null
           ELSE IF daysSinceLastPeriod < 0 THEN Null
           ELSE phaseOfDayInCycle(JsRem(daysSinceLastPeriod, cycleLength),
                                  cycleLength, averagePeriodLength)

\* Math.ceil(a / n) for n > 0
MathCeilDiv(a, n) == 0 - ((0 - a) \div n)

\* clock is the value of new Date() when the function runs; the result is a
\* 'yyyy-MM-dd' string or null.
getNextPredictedPeriod(cs, cycleLength, clock) ==
  IF Len(cs) = 0 THEN Absent
  ELSE LET lastCycle == SortDesc(cs)[1]
           lastStart == parseISO(lastCycle.period_start_date)
           nextPeriod == addDays(lastStart, cycleLength)
           today == startOfDay(clock)
       IN  IF nextPeriod < today
           THEN LET cyclesPassed ==
                      MathCeilDiv(differenceInDays(today, nextPeriod), cycleLength)
                IN  Some(format(addDays(nextPeriod, cycleLength * cyclesPassed)))
           ELSE Some(format(nextPeriod))

getNextPredictedOvulation(cs, cycleLength, clock) ==
  LET nextPeriod == getNextPredictedPeriod(cs, cycleLength, clock)
  IN  IF ~IsPresent(nextPeriod) THEN Absent
      ELSE LET periodDate == parseISO(Get(nextPeriod))
               ovulationDate == addDays(periodDate, 0 - OVULATION_OFFSET)
               today == startOfDay(clock)
           IN  IF ovulationDate < today
               THEN Some(format(addDays(ovulationDate, cycleLength)))
               ELSE Some(format(ovulationDate))

(***************************************************************************)
(* Cycle lookup                                                            *)
(***************************************************************************)
RECURSIVE findFrom(_, _, _)
findFrom(date, sorted, i) ==
  IF i > Len(sorted) THEN Absent
  ELSE LET cycleStart == parseISO(sorted[i].period_start_date)
           nextCycleStart ==
             IF i > 1 THEN Some(parseISO(sorted[i - 1].period_start_date))
             ELSE Absent
       IN  IF date >= cycleStart
              /\ (~IsPresent(nextCycleStart) \/ date < Get(nextCycleStart))
           THEN Some(sorted[i])
           ELSE findFrom(date, sorted, i + 1)

\* Mutant: the cycles are scanned oldest first.
findCycleForDate_oldestFirst(date, cs) == findFrom(date, SortAsc(cs), 1)

findCycleForDate(date, cs) == findFrom(date, SortDesc(cs), 1)

(***************************************************************************)
(* CalendarView: phase of one calendar day                                 *)
(***************************************************************************)
RECURSIVE findMarker(_, _, _)
findMarker(markers, cycleId, i) ==
  IF i > Len(markers) THEN Absent
  ELSE IF markers[i].cycle_id = cycleId THEN Some(markers[i])
  ELSE findMarker(markers, cycleId, i + 1)

RECURSIVE findIndex(_, _, _)
findIndex(sorted, cycleId, i) ==
  IF i > Len(sorted) THEN 0
  ELSE IF sorted[i].id = cycleId THEN i
  ELSE findIndex(sorted, cycleId, i + 1)

\* sortedCycles[cycleIndex + 1] of the ascending sort, as a start instant.
nextCycleStartOf(cycle, cs) ==
  LET sortedCycles == SortAsc(cs)
      cycleIndex == findIndex(sortedCycles, cycle.id, 1)
  IN  IF cycleIndex >= 1 /\ cycleIndex < Len(sortedCycles)
      THEN Some(parseISO(sortedCycles[cycleIndex + 1].period_start_date))
      ELSE Absent

\* The branch of getDayPhaseForDate for a date inside a recorded cycle.
recordedPhaseForDate(date, cs, cycleLength, markers) ==
  LET cycle == findCycleForDate(date, cs)
  IN  IF IsPresent(cycle)
      THEN getPhaseForDate(date, cycle, nextCycleStartOf(Get(cycle), cs),
                           cycleLength, findMarker(markers, Get(cycle).id, 1))
      ELSE Null

getDayPhaseForDate(date, cs, cycleLength, markers, averagePeriodLength, clock) ==
  IF Len(cs) = 0 THEN [phase |-> Null, isPrediction |-> FALSE]
  ELSE LET today == startOfDay(clock)
           isFutureDate == isAfter(startOfDay(date), today)
           sortedCycles == SortAsc(cs)
           mostRecentStart ==
             parseISO(sortedCycles[Len(sortedCycles)].period_start_date)
           predictionCutoff == addDays(mostRecentStart, cycleLength)
           predictedPhase ==
             getPredictedPhaseForDate(date, cs, cycleLength, averagePeriodLength, clock)
       IN  IF date >= predictionCutoff /\ Len(cs) >= 2
           THEN [phase |-> predictedPhase, isPrediction |-> isFutureDate]
           ELSE IF IsPresent(findCycleForDate(date, cs))
           THEN [phase |-> recordedPhaseForDate(date, cs, cycleLength, markers),
                 isPrediction |-> isFutureDate]
           ELSE IF Len(cs) >= 2
           THEN [phase |-> predictedPhase, isPrediction |-> isFutureDate]
           ELSE [phase |-> Null, isPrediction |-> FALSE]

(***************************************************************************)
(* Inputs                                                                  *)
(***************************************************************************)
StartDays == 1..MaxStart

EndsOf(s) == {Absent} \cup {Some(s + k) : k \in 0..MaxPeriodSpan}

CycleLens == MinLen..MaxLen

PeriodLens == (1..MaxAvgPeriod) \cup {DEFAULT_PERIOD_LENGTH}

QueryDays == 0..(MaxStart + MaxLen + 1)

QueryTicks == parseISO(0)..(addDays(parseISO(MaxStart + MaxLen + 1), 1) - 1)

\* Cycle lists in storage order, ids assigned in insertion order, no two
\* cycles on the same start day.
CycleLists ==
  UNION {
    { cs \in [1..n -> [id : 1..n, period_start_date : StartDays,
                       period_end_date : UNION {EndsOf(s) : s \in StartDays}]] :
        /\ \A i \in 1..n : cs[i].id = i
        /\ \A i \in 1..n : cs[i].period_end_date \in EndsOf(cs[i].period_start_date)
        /\ \A i, j \in 1..n : i # j => cs[i].period_start_date # cs[j].period_start_date }
    : n \in 0..MaxCycles }

\* At most one marker, placed on a day of the cycle it belongs to.
MarkerLists(cs) ==
  {<<>>} \cup
  { <<[id |-> 1, cycle_id |-> cs[i].id, date |-> cs[i].period_start_date + k,
       is_confirmed |-> b]>> :
      i \in 1..Len(cs), k \in 0..MaxMarkerOffset, b \in BOOLEAN }

(***************************************************************************)
(* Classifier specification: a stored history, then one engine call        *)
(* applied to every instant of the calendar window.                        *)
(***************************************************************************)
Init ==
  /\ cycles \in CycleLists
  /\ ovulationMarkers \in MarkerLists(cycles)
  /\ now = parseISO(MaxStart) + 1
  /\ op = "init"
  /\ args = <<>>
  /\ result = <<>>
  /\ IdleApp

CycleChoices == {Absent} \cup {Some(cycles[i]) : i \in 1..Len(cycles)}

ArgsFor(c, L) ==
  [currentCycle |-> c,
   nextCycleStart |-> IF IsPresent(c) THEN nextCycleStartOf(Get(c), cycles) ELSE Absent,
   cycleLength |-> L,
   ovulationMarker |-> IF IsPresent(c) THEN findMarker(ovulationMarkers, Get(c).id, 1)
                       ELSE Absent]

\* getPhaseForDate (lib/cycle) for one cycle of the history.
ClassifyDates ==
  /\ op = "init"
  /\ \E c \in CycleChoices, L \in CycleLens :
       LET a == ArgsFor(c, L)
       IN  /\ args' = a
           /\ result' = [t \in QueryTicks |->
                getPhaseForDate(t, a.currentCycle, a.nextCycleStart, a.cycleLength,
                                a.ovulationMarker)]
  /\ op' = "getPhaseForDate"
  /\ UNCHANGED <<cycles, ovulationMarkers, now, store, svc, app, calls>>

\* getPhaseForDate (db-web.ts variant) for one cycle of the history.
ClassifyDatesWeb ==
  /\ op = "init"
  /\ \E c \in CycleChoices, L \in CycleLens :
       LET a == ArgsFor(c, L)
       IN  /\ args' = a
           /\ result' = [t \in QueryTicks |->
                getPhaseForDateWeb(t, a.currentCycle, a.nextCycleStart, a.cycleLength,
                                   a.ovulationMarker)]
  /\ op' = "getPhaseForDateWeb"
  /\ UNCHANGED <<cycles, ovulationMarkers, now, store, svc, app, calls>>

\* findCycleForDate, then getPhaseForDate on the cycle found.
ResolveDates ==
  /\ op = "init"
  /\ \E L \in CycleLens :
       /\ args' = [cycleLength |-> L]
       /\ result' = [t \in QueryTicks |->
            recordedPhaseForDate(t, cycles, L, ovulationMarkers)]
  /\ op' = "recordedPhaseForDate"
  /\ UNCHANGED <<cycles, ovulationMarkers, now, store, svc, app, calls>>

Next == ClassifyDates \/ ClassifyDatesWeb \/ ResolveDates

Spec == Init /\ [][Next]_vars

(***************************************************************************)
(* Predictor specification: a stored history and a clock, then one call    *)
(* applied to every instant from the history's first day to past the       *)
(* prediction horizon.                                                     *)
(***************************************************************************)
TodayDay == MaxBack

PredictStartDays == 0..(TodayDay + 1)

PredictLens == 1..(MAX_INTERVAL - 1)

PredictTicks ==
  parseISO(0)..(addDays(parseISO(TodayDay + PREDICTION_HORIZON + 1), 1) - 1)

PredictCycleLists ==
  UNION {
    { cs \in [1..n -> [id : 1..n, period_start_date : PredictStartDays,
                       period_end_date : {Absent}]] :
        /\ \A i \in 1..n : cs[i].id = i
        /\ \A i, j \in 1..n : i # j => cs[i].period_start_date # cs[j].period_start_date }
    : n \in 0..MaxCycles }

InitPredict ==
  /\ cycles \in PredictCycleLists
  /\ ovulationMarkers = <<>>
  /\ now \in parseISO(TodayDay)..(addDays(parseISO(TodayDay), 1) - 1)
  /\ op = "init"
  /\ args = <<>>
  /\ result = <<>>
  /\ IdleApp

\* getPredictedPhaseForDate for every instant of the window.
PredictDates ==
  /\ op = "init"
  /\ \E L \in PredictLens, P \in PeriodLens :
       /\ args' = [cycleLength |-> L, averagePeriodLength |-> P]
       /\ result' = [t \in PredictTicks |->
            getPredictedPhaseForDate(t, cycles, L, P, now)]
  /\ op' = "getPredictedPhaseForDate"
  /\ UNCHANGED <<cycles, ovulationMarkers, now, store, svc, app, calls>>

\* getDayPhaseForDate for every instant of the window, as the calendar does
\* for the days it shows.
DayPhases ==
  /\ op = "init"
  /\ \E L \in CycleLens, P \in PeriodLens :
       /\ args' = [cycleLength |-> L, averagePeriodLength |-> P]
       /\ result' = [t \in PredictTicks |->
            getDayPhaseForDate(t, cycles, L, ovulationMarkers, P, now)]
  /\ op' = "getDayPhaseForDate"
  /\ UNCHANGED <<cycles, ovulationMarkers, now, store, svc, app, calls>>

NextPredict == PredictDates \/ DayPhases

SpecPredict == InitPredict /\ [][NextPredict]_vars

(***************************************************************************)
(* Statistics specification: a history of period starts in storage order,  *)
(* then one statistics call.                                               *)
(***************************************************************************)
\* Start days whose gaps include short intervals, 59, 60 and more.
StatDays == {0, 3, 7, 12, 18, 25, 34, 93, 153}

KthSmallest(S, k) ==
  CHOOSE d \in S : Cardinality({e \in S : e < d}) = k - 1

\* The storage orders tried: oldest first, newest first, and oldest first
\* rotated by half the length.
StatOrders == {"asc", "desc", "rot"}

StartsInOrder(S, o) ==
  LET n == Cardinality(S)
  IN  [k \in 1..n |->
        IF o = "asc" THEN KthSmallest(S, k)
        ELSE IF o = "desc" THEN KthSmallest(S, n + 1 - k)
        ELSE KthSmallest(S, ((k - 1 + n \div 2) % n) + 1)]

startsToCycles(starts) ==
  [k \in 1..Len(starts) |->
    [id |-> k, period_start_date |-> starts[k], period_end_date |-> Absent]]

\* Histories of distinct starts, and the same with the most recent start
\* recorded twice.
StatLists ==
  UNION {
    LET starts == StartsInOrder(S, o)
        newest == KthSmallest(S, Cardinality(S))
    IN  {startsToCycles(starts)} \cup
        (IF S = {} THEN {} ELSE {startsToCycles(Append(starts, newest))})
    : S \in {T \in SUBSET StatDays : Cardinality(T) <= MaxStatCycles},
      o \in StatOrders }

InitStats ==
  /\ cycles \in StatLists
  /\ ovulationMarkers = <<>>
  /\ now = parseISO(MaxStart) + 1
  /\ op = "init"
  /\ args = <<>>
  /\ result = <<>>
  /\ IdleApp

AverageCycleLength ==
  /\ op = "init"
  /\ result' = calculateAverageCycleLength(cycles)
  /\ op' = "calculateAverageCycleLength"
  /\ UNCHANGED <<cycles, ovulationMarkers, now, args, store, svc, app, calls>>

CycleLengthStats ==
  /\ op = "init"
  /\ args' = [maxCycles |-> STATS_MAX_CYCLES]
  /\ result' = getCycleLengthStats(cycles, STATS_MAX_CYCLES)
  /\ op' = "getCycleLengthStats"
  /\ UNCHANGED <<cycles, ovulationMarkers, now, store, svc, app, calls>>

NextStats == AverageCycleLength \/ CycleLengthStats

SpecStats == InitStats /\ [][NextStats]_vars

(***************************************************************************)
(* Period-duration specification: a history whose cycles are open, ended   *)
(* or ended before they start, then one statistics call.                   *)
(***************************************************************************)
\* The start day of the cycle stored at position k: distinct days, ten days
\* apart, not in chronological order.
DurStart(k) == 10 * ((3 * k) % 11)

\* End dates tried for the cycle at position k: none, a period of 1 to 3
\* days, and an end date one or two days before the start.
DurEnds(k) ==
  {Absent, Some(DurStart(k) + (k % 3)), Some(DurStart(k) - 1 - (k % 2))}

RECURSIVE DurListsOfLen(_)
DurListsOfLen(n) ==
  IF n = 0 THEN {<<>>}
  ELSE {Append(l, [id |-> n, period_start_date |-> DurStart(n), period_end_date |-> e])
        : l \in DurListsOfLen(n - 1), e \in DurEnds(n)}

DurLists == UNION {DurListsOfLen(n) : n \in 0..MaxDurCycles}

InitDuration ==
  /\ cycles \in DurLists
  /\ ovulationMarkers = <<>>
  /\ now = parseISO(MaxStart) + 1
  /\ op = "init"
  /\ args = <<>>
  /\ result = <<>>
  /\ IdleApp

AveragePeriodDuration ==
  /\ op = "init"
  /\ result' = calculateAveragePeriodDuration(cycles)
  /\ op' = "calculateAveragePeriodDuration"
  /\ UNCHANGED <<cycles, ovulationMarkers, now, args, store, svc, app, calls>>

PeriodDurationStats ==
  /\ op = "init"
  /\ args' = [maxCycles |-> STATS_MAX_CYCLES]
  /\ result' = getPeriodDurationStats(cycles, STATS_MAX_CYCLES)
  /\ op' = "getPeriodDurationStats"
  /\ UNCHANGED <<cycles, ovulationMarkers, now, store, svc, app, calls>>

NextDuration == AveragePeriodDuration \/ PeriodDurationStats

SpecDuration == InitDuration /\ [][NextDuration]_vars

(***************************************************************************)
(* Correlator specification: a history and a symptom log, then the phase   *)
(* date sets of one cycle or the symptom history of every phase.           *)
(***************************************************************************)
CorrStarts == {0, 20, 38}

\* No end date, or a period of one day.
CorrEnds(s) == {Absent, Some(s)}

CorrLens == {16, 20}

CorrLists ==
  UNION {
    LET starts == StartsInOrder(S, o)
    IN  {[k \in 1..Len(starts) |->
           [id |-> k, period_start_date |-> starts[k],
            period_end_date |-> IF starts[k] \in E THEN Some(starts[k]) ELSE Absent]]
         : E \in SUBSET S}
    : S \in {T \in SUBSET CorrStarts : Cardinality(T) <= MaxCorrCycles},
      o \in StatOrders }

LogDays == {3, 8, 9, 28}

SymptomTypes == {"cramps", "headache"}

LogEntries == [date : LogDays, symptom_type : SymptomTypes]

\* getAllSymptoms returns the log ordered by date, most recent first.
RECURSIVE LogsOfLen(_)
LogsOfLen(n) ==
  IF n = 0 THEN {<<>>}
  ELSE {Append(l, e) : l \in LogsOfLen(n - 1), e \in LogEntries}

IsDateDescending(l) == \A k \in 1..(Len(l) - 1) : l[k].date >= l[k + 1].date

\* The toggle keeps at most one entry per date and symptom type.
IsToggled(l) == \A j, k \in 1..Len(l) : j # k => l[j] # l[k]

SymptomLogs ==
  {l \in UNION {LogsOfLen(n) : n \in 0..MaxLogEntries} :
     IsDateDescending(l) /\ IsToggled(l)}

\* No marker, or one marker (confirmed or not) on the ninth day of a cycle.
CorrMarkerLists(cs) ==
  {<<>>} \cup
  { <<[id |-> 1, cycle_id |-> cs[i].id, date |-> cs[i].period_start_date + 8,
       is_confirmed |-> b]>> :
      i \in 1..Len(cs), b \in BOOLEAN }

InitCorrelate ==
  /\ cycles \in CorrLists
  /\ ovulationMarkers \in CorrMarkerLists(cycles)
  /\ now = parseISO(MaxStart) + 1
  /\ op = "init"
  /\ args = <<>>
  /\ result = <<>>
  /\ IdleApp

\* The start of the cycle that follows cycles[i] in time, if any.
followingStart(i) ==
  LET later == {j \in 1..Len(cycles) :
                  cycles[j].period_start_date > cycles[i].period_start_date}
  IN  IF later = {} THEN Absent
      ELSE Some(parseISO(
             cycles[CHOOSE j \in later :
                      \A m \in later :
                        cycles[j].period_start_date <= cycles[m].period_start_date
                   ].period_start_date))

PhaseDates ==
  /\ op = "init"
  /\ \E i \in 1..Len(cycles), L \in CorrLens :
       /\ args' = [cycle |-> cycles[i], cycleLength |-> L,
                   nextCycleStart |-> followingStart(i)]
       /\ result' = [P \in Phases |->
                      getPhaseDates(cycles[i], P, L, followingStart(i))]
  /\ op' = "getPhaseDates"
  /\ UNCHANGED <<cycles, ovulationMarkers, now, store, svc, app, calls>>

SymptomHistory ==
  /\ op = "init"
  /\ \E log \in SymptomLogs, L \in CorrLens :
       /\ args' = [symptoms |-> log, cycleLength |-> L, maxCycles |-> STATS_MAX_CYCLES]
       /\ result' = [P \in Phases |->
                      getSymptomsForPhaseHistory(P, cycles, log, L, STATS_MAX_CYCLES)]
  /\ op' = "getSymptomsForPhaseHistory"
  /\ UNCHANGED <<cycles, ovulationMarkers, now, store, svc, app, calls>>

NextCorrelate == PhaseDates \/ SymptomHistory

SpecCorrelate == InitCorrelate /\ [][NextCorrelate]_vars

(***************************************************************************)
(* Next-date specification: a history, a clock reading on any day of the   *)
(* window, then one call of a next-date function.                          *)
(***************************************************************************)
NextNowTicks == parseISO(0)..(parseISO(MaxNowDay + 1) - 1)

InitNextDates ==
  /\ cycles \in PredictCycleLists
  /\ ovulationMarkers = <<>>
  /\ now \in NextNowTicks
  /\ op = "init"
  /\ args = <<>>
  /\ result = <<>>
  /\ IdleApp

NextPredictedPeriod ==
  /\ op = "init"
  /\ \E L \in PredictLens :
       /\ args' = [cycleLength |-> L]
       /\ result' = getNextPredictedPeriod(cycles, L, now)
  /\ op' = "getNextPredictedPeriod"
  /\ UNCHANGED <<cycles, ovulationMarkers, now, store, svc, app, calls>>

NextPredictedOvulation ==
  /\ op = "init"
  /\ \E L \in PredictLens :
       /\ args' = [cycleLength |-> L]
       /\ result' = getNextPredictedOvulation(cycles, L, now)
  /\ op' = "getNextPredictedOvulation"
  /\ UNCHANGED <<cycles, ovulationMarkers, now, store, svc, app, calls>>

NextNextDates == NextPredictedPeriod \/ NextPredictedOvulation

SpecNextDates == InitNextDates /\ [][NextNextDates]_vars

(***************************************************************************)
(* What the claims speak about, in calendar days                           *)
(***************************************************************************)
DirectCall == op \in {"getPhaseForDate", "getPhaseForDateWeb"}

HasCycle == DirectCall /\ IsPresent(args.currentCycle)

ArgCycle == Get(args.currentCycle)

StartDay == ArgCycle.period_start_date

\* Last day of the period: the recorded end, or start + 4 when none is recorded.
EndDay ==
  IF IsPresent(ArgCycle.period_end_date) THEN Get(ArgCycle.period_end_date)
  ELSE StartDay + 4

HasConfirmedMarker ==
  IsPresent(args.ovulationMarker) /\ Get(args.ovulationMarker).is_confirmed

\* The cycle's ovulation day: the confirmed marker, else start + (length - 14).
OvDay ==
  IF HasConfirmedMarker THEN Get(args.ovulationMarker).date
  ELSE StartDay + (args.cycleLength - 14)

\* Days before the ovulation day that the fertile window reaches back.
WindowBefore == IF op = "getPhaseForDateWeb" THEN 5 ELSE 4

\* Last day of the cycle: the day before the next start, or start + length - 1.
LastDay ==
  IF IsPresent(args.nextCycleStart) THEN format(Get(args.nextCycleStart)) - 1
  ELSE StartDay + args.cycleLength - 1

DayOf(t) == t \div TicksPerDay

IsMidnight(t) == t % TicksPerDay = 0

\* C1: every instant of a day in [periodStartDate, periodEndDate] (or
\* [periodStartDate, periodStartDate + 4] without an end date) is MENSTRUAL,
\* whatever the cycle length and the ovulation date, in both variants.
C1_MenstrualWins ==
  HasCycle =>
    \A t \in QueryTicks :
      (DayOf(t) >= StartDay /\ DayOf(t) <= EndDay) => result[t] = MENSTRUAL

\* The ovulation day is the period's last day, and an instant of that day
\* after midnight was classified MENSTRUAL.
C1_Witness ==
  /\ HasCycle
  /\ OvDay = EndDay
  /\ EndDay > StartDay
  /\ \E t \in QueryTicks :
       DayOf(t) = EndDay /\ ~IsMidnight(t) /\ result[t] = MENSTRUAL

\* C2: with cycles A then B, A's estimated ovulation date (A.start + length
\* - 14) lying inside B's menstrual interval is resolved to B and classified
\* MENSTRUAL (B being the last cycle that starts on or before that date).
C2_OvulationInsideNextPeriod ==
  op = "recordedPhaseForDate" =>
    \A i, j \in 1..Len(cycles) :
      LET A == cycles[i]
          B == cycles[j]
          ovA == A.period_start_date + (args.cycleLength - 14)
          endB == IF IsPresent(B.period_end_date) THEN Get(B.period_end_date)
                  ELSE B.period_start_date + 4
      IN  ( /\ A.period_start_date < B.period_start_date
            /\ ovA >= B.period_start_date /\ ovA <= endB
            /\ \A k \in 1..Len(cycles) :
                 ~(cycles[k].period_start_date > B.period_start_date
                   /\ cycles[k].period_start_date <= ovA) )
          => \A t \in QueryTicks : DayOf(t) = ovA => result[t] = MENSTRUAL

C2_Witness ==
  /\ op = "recordedPhaseForDate"
  /\ Len(cycles) = 2
  /\ \E i, j \in 1..Len(cycles) :
       LET A == cycles[i]
           B == cycles[j]
           ovA == A.period_start_date + (args.cycleLength - 14)
       IN  /\ A.period_start_date < B.period_start_date
           /\ IsPresent(B.period_end_date)
           /\ ovA > B.period_start_date /\ ovA <= Get(B.period_end_date)
           /\ result[parseISO(ovA)] = MENSTRUAL

\* The fertile window of the variant called does not reach into the period.
NoOverlap == OvDay - WindowBefore > EndDay

CycleDates == {t \in QueryTicks : IsMidnight(t) /\ DayOf(t) >= StartDay /\ DayOf(t) <= LastDay}

CountOf(p) == Cardinality({t \in CycleDates : result[t] = p})

\* C3: when period and fertile window do not overlap, every calendar date
\* from periodStartDate to the cycle's last day gets a phase, and the
\* per-phase counts add up to the cycle's number of days.
C3_EveryDateOnePhase ==
  (HasCycle /\ NoOverlap) =>
    /\ \A t \in CycleDates : result[t] \in Phases
    /\ CountOf(MENSTRUAL) + CountOf(FOLLICULAR) + CountOf(FERTILE)
         + CountOf(OVULATION) + CountOf(LUTEAL) = LastDay - StartDay + 1

\* A most recent cycle without overlap whose last day is LUTEAL, classified
\* by the variant without a FERTILE phase.
C3_Witness ==
  /\ op = "getPhaseForDate"
  /\ IsPresent(args.currentCycle)
  /\ NoOverlap
  /\ ~IsPresent(args.nextCycleStart)
  /\ LastDay > OvDay
  /\ result[parseISO(LastDay)] = LUTEAL
  /\ CountOf(FOLLICULAR) > 0

\* As C3_Witness, for the variant with a FERTILE phase.
C3_WitnessWeb ==
  /\ op = "getPhaseForDateWeb"
  /\ IsPresent(args.currentCycle)
  /\ NoOverlap
  /\ CountOf(FERTILE) > 0
  /\ CountOf(LUTEAL) > 0

\* C4: a date that is not MENSTRUAL is OVULATION exactly when it is the
\* cycle's ovulation day (the confirmed marker's date, else start + length
\* - 14), although that day is inside the fertile window.
C4_OvulationIffOvulationDay ==
  HasCycle =>
    \A t \in QueryTicks :
      result[t] # MENSTRUAL => (result[t] = OVULATION <=> DayOf(t) = OvDay)

\* A confirmed marker away from the estimate decided the ovulation day.
C4_Witness ==
  /\ HasCycle
  /\ HasConfirmedMarker
  /\ OvDay # StartDay + (args.cycleLength - 14)
  /\ OvDay > EndDay
  /\ result[parseISO(OvDay)] = OVULATION
  /\ StartDay + (args.cycleLength - 14) > EndDay
  /\ result[parseISO(StartDay + (args.cycleLength - 14))] \in {FOLLICULAR, LUTEAL, FERTILE}

InWindow(t) == DayOf(t) >= OvDay - WindowBefore /\ DayOf(t) <= OvDay + 1

InPeriod(t) == DayOf(t) >= StartDay /\ DayOf(t) <= EndDay

C6_LutealStopsBeforeNextStart ==
  (HasCycle /\ IsPresent(args.nextCycleStart)) =>
    \A t \in QueryTicks : t >= Get(args.nextCycleStart) => result[t] # LUTEAL

Predicted == op = "getPredictedPhaseForDate"

Today == DayOf(now)

\* Start day of the most recent recorded cycle (of a non-empty history).
LastStartDay ==
  CHOOSE d \in {cycles[i].period_start_date : i \in 1..Len(cycles)} :
    \A i \in 1..Len(cycles) : cycles[i].period_start_date <= d

C8_Horizon ==
  Predicted =>
    /\ \A t \in PredictTicks : t > parseISO(Today + 365) => result[t] = Null
    /\ (Len(cycles) > 0 /\ LastStartDay <= Today + 365)
         => result[parseISO(Today + 365)] \in Phases

\* The clock is past midnight, the date 365 days after the start of today has
\* a phase and the next instant has none.
C8_Witness ==
  /\ Predicted
  /\ Len(cycles) >= 2
  /\ ~IsMidnight(now)
  /\ result[parseISO(Today + 365)] \in Phases
  /\ result[parseISO(Today + 365) + 1] = Null

\* C9: with at least 2 cycles, all starting on or before today, every query
\* date from today to 364 days after today gets a phase, for every cycle
\* length 1..59 and every average period length.
C9_ConcretePhaseWithinHorizon ==
  ( /\ Predicted
    /\ Len(cycles) >= 2
    /\ \A i \in 1..Len(cycles) : cycles[i].period_start_date <= Today )
  => \A t \in PredictTicks :
       (DayOf(t) >= Today /\ DayOf(t) <= Today + 364) => result[t] \in Phases

\* A short cycle length (ovulation day before the cycle start) and a long one
\* both occur; here the day 364 days out is LUTEAL under a length below 14.
C9_Witness ==
  /\ Predicted
  /\ Len(cycles) >= 2
  /\ \A i \in 1..Len(cycles) : cycles[i].period_start_date <= Today
  /\ args.cycleLength < 14
  /\ args.averagePeriodLength < args.cycleLength
  /\ result[parseISO(Today + 364)] = LUTEAL
  /\ result[parseISO(Today)] \in Phases

\* C10: a query date before the most recent recorded period start is still
\* classified: dayInCycle is the floored, non-negative daysSinceStart mod
\* averageCycleLength, and the phase of that dayInCycle is returned.
C10_NegativeOffsetClassified ==
  (Predicted /\ Len(cycles) > 0) =>
    \A t \in PredictTicks :
      LET daysSinceStart == differenceInDays(t, parseISO(LastStartDay))
      IN  daysSinceStart < 0 =>
            result[t] = phaseOfDayInCycle(daysSinceStart % args.cycleLength,
                                          args.cycleLength, args.averagePeriodLength)

\* The most recent recorded cycle (of a non-empty history).
LastCycle ==
  cycles[CHOOSE i \in 1..Len(cycles) : cycles[i].period_start_date = LastStartDay]

\* C11: for the most recent cycle, without end date and without marker, and
\* an average period length of 5, the predictor and the classifier give the
\* same phase to the calendar date start + d, for every 0 <= d < L and every
\* cycle length L in 1..59.
C11_PredictorMatchesClassifier ==
  ( /\ Predicted
    /\ Len(cycles) > 0
    /\ args.averagePeriodLength = 5
    /\ ~IsPresent(LastCycle.period_end_date) )
  => \A d \in 0..(args.cycleLength - 1) :
       LET date == parseISO(LastStartDay + d)
       IN  result[date] =
             getPhaseForDate(date, Some(LastCycle), Absent, args.cycleLength, Absent)

\* A long cycle whose days were projected as all four phases, the last day
\* of the cycle being LUTEAL.
C11_Witness ==
  /\ Predicted
  /\ Len(cycles) > 0
  /\ args.averagePeriodLength = 5
  /\ args.cycleLength > 20
  /\ result[parseISO(LastStartDay + 4)] = MENSTRUAL
  /\ result[parseISO(LastStartDay + 5)] = FOLLICULAR
  /\ result[parseISO(LastStartDay + args.cycleLength - 14)] = OVULATION
  /\ result[parseISO(LastStartDay + args.cycleLength - 1)] = LUTEAL

(***************************************************************************)
(* Cycle-length statistics claims                                          *)
(***************************************************************************)
Averaged == op = "calculateAverageCycleLength"

LengthStats == op = "getCycleLengthStats"

\* The recorded start days.
RecordedStarts == {cycles[i].period_start_date : i \in 1..Len(cycles)}

\* The start day that stands at position k when the recorded starts are
\* listed from the most recent to the oldest (equal starts side by side).
StartAtRank(k) ==
  CHOOSE d \in RecordedStarts :
    LET later == Cardinality({i \in 1..Len(cycles) : cycles[i].period_start_date > d})
        same == Cardinality({i \in 1..Len(cycles) : cycles[i].period_start_date = d})
    IN  later < k /\ k <= later + same

\* The k-th most recent interval between consecutive period starts, in days.
IntervalAt(k) == StartAtRank(k) - StartAtRank(k + 1)

\* Positions of the (at most six) most recent intervals.
RecentIntervals ==
  {k \in 1..6 : k < Len(cycles)}

\* Those of them that pass the sanity filter.
Surviving == {k \in RecentIntervals : IntervalAt(k) > 0 /\ IntervalAt(k) < 60}

SurvivingSum ==
  Sum([k \in 1..6 |-> IF k \in Surviving THEN IntervalAt(k) ELSE 0])

\* r is the integer nearest to sum / n (a half rounds up).
IsNearestInteger(r, sum, n) ==
  /\ 2 * (n * r - sum) <= n
  /\ 2 * (n * r - sum) > -n

\* C12: calculateAverageCycleLength returns exactly 28 for an empty history
\* and for a history of a single cycle.
C12_DefaultBelowTwoCycles ==
  (Averaged /\ Len(cycles) < 2) => result = 28

C12_Witness == Averaged /\ Len(cycles) = 1 /\ result = 28

\* C13: an interval of 0 days or less, or of 60 days or more, never enters the
\* average: the result is the rounded mean of the other intervals of the
\* window, and 28 when none is left.
C13_DiscardedIntervalsDoNotCount ==
  Averaged =>
    /\ Surviving = {} => result = 28
    /\ Surviving # {} =>
         IsNearestInteger(result, SurvivingSum, Cardinality(Surviving))

\* One window holding an interval of 0 (dropped), one of 59 (kept) and one of
\* 60 (dropped).
C13_Witness ==
  /\ Averaged
  /\ Surviving # {}
  /\ \E k \in Surviving : IntervalAt(k) = 59
  /\ \E k \in RecentIntervals : IntervalAt(k) = 60
  /\ \E k \in RecentIntervals : IntervalAt(k) = 0

\* The seven most recent cycles, most recent first.
SevenMostRecent ==
  startsToCycles([k \in 1..(IF Len(cycles) < 7 THEN Len(cycles) ELSE 7) |->
                   StartAtRank(k)])

C15_StatsAgreeWithAverage ==
  LengthStats =>
    /\ Len(cycles) < 2 => ~IsPresent(result)
    /\ IsPresent(result) =>
         /\ Get(result).avg = calculateAverageCycleLength(cycles)
         /\ Get(result).min <= Get(result).avg
         /\ Get(result).avg <= Get(result).max
         /\ Surviving # {}
         /\ \E k \in Surviving : IntervalAt(k) = Get(result).min
         /\ \E k \in Surviving : IntervalAt(k) = Get(result).max
         /\ \A k \in Surviving :
              Get(result).min <= IntervalAt(k) /\ IntervalAt(k) <= Get(result).max

C15_Witness ==
  /\ LengthStats
  /\ Len(cycles) > 7
  /\ IsPresent(result)
  /\ Get(result).min < Get(result).avg
  /\ Get(result).avg < Get(result).max
  /\ Surviving # RecentIntervals
(***************************************************************************)
(* Period-duration claims                                                  *)
(***************************************************************************)
AveragedDuration == op = "calculateAveragePeriodDuration"

DurationStats == op = "getPeriodDurationStats"

\* Positions of the cycles that have an end date.
Ended == {i \in 1..Len(cycles) : IsPresent(cycles[i].period_end_date)}

\* (end - start in days) + 1 of the cycle at position i.
SpanOf(i) == Get(cycles[i].period_end_date) - cycles[i].period_start_date + 1

\* Positions of the cycles whose end date precedes their start date.
Reversed == {i \in Ended : Get(cycles[i].period_end_date) < cycles[i].period_start_date}

\* The history without the cycles whose end date precedes their start date.
WithoutReversed ==
  SelectSeq(cycles, LAMBDA c :
    ~(IsPresent(c.period_end_date) /\ Get(c.period_end_date) < c.period_start_date))

\* C16: calculateAveragePeriodDuration is absent when no cycle has an end
\* date, and otherwise the rounded mean of (end - start) + 1 over exactly the
\* cycles that have one.
C16_AverageOverEndedCycles ==
  AveragedDuration =>
    /\ Ended = {} => ~IsPresent(result)
    /\ Ended # {} =>
         /\ IsPresent(result)
         /\ IsNearestInteger(Get(result),
              Sum([i \in 1..Len(cycles) |-> IF i \in Ended THEN SpanOf(i) ELSE 0]),
              Cardinality(Ended))

\* C17: a cycle whose end date precedes its start date contributes nothing
\* to the period-duration average and min/max: both are what the other
\* cycles alone give.
C17_ReversedCyclesExcluded ==
  /\ AveragedDuration => result = calculateAveragePeriodDuration(WithoutReversed)
  /\ DurationStats => result = getPeriodDurationStats(WithoutReversed, args.maxCycles)

\* Position of cycle i among all cycles, most recent start first.
RankByStart(i) ==
  1 + Cardinality({j \in 1..Len(cycles) :
        cycles[j].period_start_date > cycles[i].period_start_date})

\* Position of cycle i among the cycles that have an end date.
RankAmongEnded(i) ==
  1 + Cardinality({j \in Ended :
        cycles[j].period_start_date > cycles[i].period_start_date})

\* Other end dates for cycle i, around its start.
OtherEnds(i) == {Some(cycles[i].period_start_date + j) : j \in (-2)..3}

WithEnd(i, e) == [cycles EXCEPT ![i].period_end_date = e]

\* C18 as stated: changing the end date of a cycle older than the 6 most
\* recent by start date changes neither result.
C18_Original ==
  \A i \in Ended : RankByStart(i) > 6 =>
    \A e \in OtherEnds(i) :
      /\ AveragedDuration => calculateAveragePeriodDuration(WithEnd(i, e)) = result
      /\ DurationStats => getPeriodDurationStats(WithEnd(i, e), args.maxCycles) = result

\* What a cycle with an end date contributes to the duration statistics.
ContributionOf(i) == IF SpanOf(i) > 0 THEN SpanOf(i) ELSE 5

\* C18 (amended): getPeriodDurationStats depends only on the 6 most recent
\* cycles among those that have an end date; calculateAveragePeriodDuration
\* has no window and averages every cycle that has an end date.
C18_WindowOverEndedCyclesOnly ==
  /\ DurationStats =>
       \A i \in Ended : RankAmongEnded(i) > 6 =>
         \A e \in OtherEnds(i) :
           getPeriodDurationStats(WithEnd(i, e), args.maxCycles) = result
  /\ (AveragedDuration /\ Ended # {}) =>
       /\ IsPresent(result)
       /\ IsNearestInteger(Get(result),
            Sum([i \in 1..Len(cycles) |->
                  IF i \in Ended THEN ContributionOf(i) ELSE 0]),
            Cardinality(Ended))

\* Seven cycles with an end date and differing durations: the oldest is
\* outside the window.
C18_Witness ==
  /\ DurationStats
  /\ Cardinality(Ended) = 7
  /\ IsPresent(result)
  /\ Get(result).min < Get(result).max
  /\ \E i \in Ended : RankAmongEnded(i) = 7 /\ ContributionOf(i) # Get(result).avg
(***************************************************************************)
(* Correlator claims                                                       *)
(***************************************************************************)
History == op = "getSymptomsForPhaseHistory"

PhaseDatesCall == op = "getPhaseDates"

\* Positions of the analyzed cycles: the six most recent by start date.
Analyzed == {i \in 1..Len(cycles) : RankByStart(i) <= 6}

\* The dates of phase P in the cycle at position i, as the correlator takes
\* them.
PhaseDaysOf(i, P) ==
  SetOf(getPhaseDates(cycles[i], P, args.cycleLength, followingStart(i)))

\* The symptom was logged on at least one date of phase P of cycle i.
LoggedIn(i, P, type) ==
  \E k \in 1..Len(args.symptoms) :
    /\ args.symptoms[k].symptom_type = type
    /\ args.symptoms[k].date \in PhaseDaysOf(i, P)

\* C19: a symptom's occurrences is the number of analyzed cycles in which it
\* was logged on at least one date of the phase, so it never exceeds the
\* number of analyzed cycles and the percentage never exceeds 100.
C19_OccurrencesCountCycles ==
  History =>
    \A P \in Phases : \A j \in 1..Len(result[P]) :
      LET r == result[P][j]
      IN  /\ r.occurrences = Cardinality({i \in Analyzed : LoggedIn(i, P, r.symptom)})
          /\ r.occurrences <= Cardinality(Analyzed)
          /\ r.percentage <= 100

\* Day numbers of the cycle passed to getPhaseDates.
CallStartDay == args.cycle.period_start_date

CallEndDay ==
  IF IsPresent(args.cycle.period_end_date) THEN Get(args.cycle.period_end_date)
  ELSE CallStartDay + 4

CallLastDay ==
  IF IsPresent(args.nextCycleStart) THEN format(Get(args.nextCycleStart)) - 1
  ELSE CallStartDay + args.cycleLength - 1

\* C20: for a cycle without marker whose period and fertile window do not
\* overlap, a date of the cycle is in getPhaseDates(cycle, P, L, next) exactly
\* when getPhaseForDate(date, cycle, next, L) returns P.
C20_DateSetsMatchClassifier ==
  (PhaseDatesCall /\ CallStartDay + args.cycleLength - 14 - 4 > CallEndDay) =>
    \A d \in CallStartDay..CallLastDay : \A P \in Phases :
      (d \in SetOf(result[P])) <=>
        (getPhaseForDate(parseISO(d), Some(args.cycle), args.nextCycleStart,
                         args.cycleLength, Absent) = P)
\* The confirmed ovulation day recorded for the cycle at position i, if any.
ConfirmedDayOf(i) ==
  LET ms == {k \in 1..Len(ovulationMarkers) :
               /\ ovulationMarkers[k].cycle_id = cycles[i].id
               /\ ovulationMarkers[k].is_confirmed}
  IN  IF ms = {} THEN Absent ELSE Some(ovulationMarkers[CHOOSE k \in ms : TRUE].date)

\* The symptom types reported for phase P.
ReportedFor(P) == {result[P][j].symptom : j \in 1..Len(result[P])}

\* C21: for an analyzed cycle with a confirmed ovulation date, the OVULATION
\* date set of getSymptomsForPhaseHistory is that date: a symptom logged on it
\* is reported for OVULATION.
C21_ConfirmedOvulationInCorrelator ==
  History =>
    \A i \in Analyzed :
      IsPresent(ConfirmedDayOf(i)) =>
        \A k \in 1..Len(args.symptoms) :
          args.symptoms[k].date = Get(ConfirmedDayOf(i)) =>
            args.symptoms[k].symptom_type \in ReportedFor(OVULATION)

\* Occurrences reported for phase P, over all symptoms.
TotalFor(P) ==
  Sum([j \in 1..Len(result[P]) |-> result[P][j].occurrences])

\* C22: the phase date sets of a cycle are pairwise disjoint, and a log entry
\* is counted toward at most one phase.
C22_PhaseDateSetsDisjoint ==
  /\ PhaseDatesCall =>
       \A P, Q \in Phases : P # Q => SetOf(result[P]) \cap SetOf(result[Q]) = {}
  /\ (History /\ Len(cycles) = 1) =>
       TotalFor(MENSTRUAL) + TotalFor(FOLLICULAR) + TotalFor(FERTILE)
         + TotalFor(OVULATION) + TotalFor(LUTEAL) <= Len(args.symptoms)
(***************************************************************************)
(* Next-date claims                                                        *)
(***************************************************************************)
\* Two other readings of the system clock: the first and the last instant of
\* the window.
OtherClocks == {parseISO(0), parseISO(MaxNowDay + 1) - 1}

\* C23: a call with the same arguments returns the same result whatever the
\* system clock reads.
C23_SameArgumentsSameResult ==
  /\ op = "getNextPredictedPeriod" =>
       \A clock \in OtherClocks :
         getNextPredictedPeriod(cycles, args.cycleLength, clock) = result
  /\ op = "getNextPredictedOvulation" =>
       \A clock \in OtherClocks :
         getNextPredictedOvulation(cycles, args.cycleLength, clock) = result

\* C30: for a non-empty history getNextPredictedOvulation returns a date on
\* or after today.
C30_OvulationNotBeforeToday ==
  (op = "getNextPredictedOvulation" /\ Len(cycles) > 0) =>
    /\ IsPresent(result)
    /\ Get(result) >= Today

(***************************************************************************)
(* WebDatabaseService (lib/db-web): every collection is one localStorage   *)
(* key holding a JSON array.  An operation is an operator from the store   *)
(* and the service fields to an Outcome: the store and fields it leaves,   *)
(* whether it threw, and the value it returned.                            *)
(***************************************************************************)
MaxId == 2

Outcome(st, sv, threw, value) ==
  [store |-> st, svc |-> sv, threw |-> threw, value |-> value]

\* A value handed to setStoredData: an array of records, undefined, or
\* null (the JSON value that is not an array).
Arr(items) == [kind |-> "array", items |-> items]
Undefined == [kind |-> "undefined", items |-> <<>>]
NotArray == [kind |-> "null", items |-> <<>>]

\* JSON.stringify(undefined) is undefined, stored as the text "undefined",
\* which getStoredData fails to parse and reads as []; a non-array value is
\* stored and read back as it is.
setStoredData(st, key, data) ==
  [st EXCEPT ![key] = data.items,
             !.junk = IF data.kind = "null" THEN @ \cup {key} ELSE @ \ {key}]

\* getStoredData hands back the parsed value; the array methods the callers
\* apply to it (map, sort, filter, push, findIndex, some) throw a TypeError
\* when it is not an array.
readsArray(st, key) == key \notin st.junk

\* One more than the number of records, in place of one more than the
\* largest id.
nextIdOf_count(records) == Len(records) + 1

\* Math.max(1, ...records.map(r => r.id + 1), 1)
nextIdOf(records) ==
  MathMax(<<1>> \o [k \in 1..Len(records) |-> records[k].id + 1] \o <<1>>)

LoadOrder == <<"cycles", "symptoms", "custom_symptom_types", "day_notes">>

RECURSIVE loadFrom(_, _, _, _)
loadFrom(st, ids, order, k) ==
  IF k > Len(order) THEN [nextIds |-> ids, threw |-> FALSE]
  ELSE IF ~readsArray(st, order[k]) THEN [nextIds |-> ids, threw |-> TRUE]
  ELSE loadFrom(st, [ids EXCEPT ![order[k]] = nextIdOf(st[order[k]])],
                order, k + 1)

loadNextIds(st, ids) == loadFrom(st, ids, LoadOrder, 1)

initialize(st, sv) ==
  LET l == loadNextIds(st, sv.nextIds) IN
  IF l.threw
  THEN Outcome(st, [sv EXCEPT !.nextIds = l.nextIds], FALSE, FALSE)
  ELSE Outcome([st EXCEPT !.initialized = TRUE],
               [sv EXCEPT !.nextIds = l.nextIds, !.isInitialized = TRUE],
               FALSE, TRUE)

close(st, sv) == Outcome(st, [sv EXCEPT !.isInitialized = FALSE], FALSE, <<>>)

isReady(sv) == sv.isInitialized

\* const id = this.nextIds[key]++ comes before the push, so the counter
\* moves even when the push throws.
addRecord(st, sv, key, record) ==
  LET id == sv.nextIds[key]
      sv2 == [sv EXCEPT !.nextIds[key] = id + 1]
  IN  IF ~readsArray(st, key) THEN Outcome(st, sv2, TRUE, <<>>)
      ELSE Outcome(setStoredData(st, key, Arr(Append(st[key], record))),
                   sv2, FALSE, id)

addCycle(st, sv, startDate, endDate) ==
  LET newCycle == [id |-> sv.nextIds.cycles, period_start_date |-> startDate,
                   period_end_date |-> endDate]
  IN  addRecord(st, sv, "cycles", newCycle)

RECURSIVE findIndexById(_, _, _)
findIndexById(records, id, k) ==
  IF k > Len(records) THEN 0 - 1
  ELSE IF records[k].id = id THEN k
  ELSE findIndexById(records, id, k + 1)

updateCycle(st, sv, id, startDate, endDate) ==
  IF ~readsArray(st, "cycles") THEN Outcome(st, sv, TRUE, <<>>)
  ELSE LET index == findIndexById(st.cycles, id, 1) IN
       IF index # 0 - 1
       THEN Outcome(setStoredData(st, "cycles",
                      Arr([st.cycles EXCEPT ![index].period_start_date = startDate,
                                            ![index].period_end_date = endDate])),
                    sv, FALSE, <<>>)
       ELSE Outcome(st, sv, FALSE, <<>>)

deleteCycle(st, sv, id) ==
  IF ~readsArray(st, "cycles") THEN Outcome(st, sv, TRUE, <<>>)
  ELSE Outcome(setStoredData(st, "cycles",
                 Arr(SelectSeq(st.cycles, LAMBDA c : c.id # id))),
               sv, FALSE, <<>>)

addSymptom(st, sv, date, symptomType) ==
  LET newSymptom == [id |-> sv.nextIds.symptoms, date |-> date,
                     symptom_type |-> symptomType]
  IN  addRecord(st, sv, "symptoms", newSymptom)

\* The name check comes first: a name already stored returns 0 and takes
\* no id (names here are lower case).
addCustomSymptomType(st, sv, name) ==
  IF ~readsArray(st, "custom_symptom_types") THEN Outcome(st, sv, TRUE, <<>>)
  ELSE IF \E k \in 1..Len(st.custom_symptom_types) :
            st.custom_symptom_types[k].name = name
       THEN Outcome(st, sv, FALSE, 0)
       ELSE LET newType == [id |-> sv.nextIds.custom_symptom_types,
                            name |-> name]
            IN  addRecord(st, sv, "custom_symptom_types", newType)

addNote(st, sv, date) ==
  LET newNote == [id |-> sv.nextIds.day_notes, date |-> date]
  IN  addRecord(st, sv, "day_notes", newNote)

\* symptoms.sort((a, b) => new Date(b.date) - new Date(a.date)), stable.
RECURSIVE insertByDateDesc(_, _)
insertByDateDesc(r, s) ==
  IF s = <<>> THEN <<r>>
  ELSE IF parseISO(Head(s).date) >= parseISO(r.date)
       THEN <<Head(s)>> \o insertByDateDesc(r, Tail(s))
       ELSE <<r>> \o s

RECURSIVE sortByDateDesc(_)
sortByDateDesc(s) ==
  IF s = <<>> THEN <<>>
  ELSE insertByDateDesc(s[Len(s)], sortByDateDesc(SubSeq(s, 1, Len(s) - 1)))

\* The custom symptom names in use, in localeCompare order.
CustomNames == <<"acne", "bloating">>

nameRank(name) == CHOOSE k \in 1..Len(CustomNames) : CustomNames[k] = name

\* types.sort((a, b) => a.name.localeCompare(b.name)), stable.
RECURSIVE insertByName(_, _)
insertByName(r, s) ==
  IF s = <<>> THEN <<r>>
  ELSE IF nameRank(Head(s).name) <= nameRank(r.name)
       THEN <<Head(s)>> \o insertByName(r, Tail(s))
       ELSE <<r>> \o s

RECURSIVE sortByName(_)
sortByName(s) ==
  IF s = <<>> THEN <<>>
  ELSE insertByName(s[Len(s)], sortByName(SubSeq(s, 1, Len(s) - 1)))

\* getAllCycles, getAllSymptoms and getAllCustomSymptomTypes sort what
\* they read; day_notes is handed out as it is stored.
exportAllData(st, sv) ==
  IF \E key \in {"cycles", "symptoms", "custom_symptom_types"} :
       ~readsArray(st, key)
  THEN Outcome(st, sv, TRUE, <<>>)
  ELSE Outcome(st, sv, FALSE,
         [cycles |-> Arr(SortDesc(st.cycles)),
          symptoms |-> Arr(sortByDateDesc(st.symptoms)),
          custom_symptom_types |-> Arr(sortByName(st.custom_symptom_types)),
          day_notes |-> IF readsArray(st, "day_notes")
                        THEN Arr(st.day_notes) ELSE NotArray])

removeItem(st, key) == [st EXCEPT ![key] = <<>>, !.junk = @ \ {key}]

clearAllData(st, sv) ==
  LET st1 == removeItem(st, "cycles")
      st2 == removeItem(st1, "symptoms")
      st3 == removeItem(st2, "custom_symptom_types")
      st4 == removeItem(st3, "day_notes")
  IN  Outcome([st4 EXCEPT !.initialized = FALSE],
              [sv EXCEPT !.nextIds.cycles = 1, !.nextIds.symptoms = 1,
                         !.nextIds.custom_symptom_types = 1,
                         !.nextIds.day_notes = 1,
                         !.isInitialized = FALSE],
              FALSE, <<>>)

\* data.day_notes || []
orEmpty(data) == IF data.kind = "array" THEN data ELSE Arr(<<>>)

\* An import that adds the cycles of the file to the stored ones in place
\* of replacing them.
importData_merge(st, sv, data) ==
  LET st1 == setStoredData(st, "cycles", Arr(st.cycles \o data.cycles.items))
      st2 == setStoredData(st1, "symptoms", data.symptoms)
      st3 == setStoredData(st2, "custom_symptom_types", data.custom_symptom_types)
      st4 == setStoredData(st3, "day_notes", orEmpty(data.day_notes))
      l == loadNextIds(st4, sv.nextIds)
  IN  Outcome(st4, [sv EXCEPT !.nextIds = l.nextIds], l.threw, <<>>)

importData(st, sv, data) ==
  LET c == clearAllData(st, sv)
      st1 == setStoredData(c.store, "cycles", data.cycles)
      st2 == setStoredData(st1, "symptoms", data.symptoms)
      st3 == setStoredData(st2, "custom_symptom_types", data.custom_symptom_types)
      st4 == setStoredData(st3, "day_notes", orEmpty(data.day_notes))
      l == loadNextIds(st4, c.svc.nextIds)
  IN  Outcome(st4, [c.svc EXCEPT !.nextIds = l.nextIds], l.threw, <<>>)

\* SettingsView.handleImport on a parsed backup file: the version check
\* comes before anything is cleared; a successful import reloads the page,
\* and the new page's service is initialized on mount.
handleImport(st, sv, file) ==
  IF file.version # 1 THEN Outcome(st, sv, FALSE, "Invalid backup file version.")
  ELSE LET i == importData(st, sv,
                  [cycles |-> file.cycles, symptoms |-> file.symptoms,
                   custom_symptom_types |-> file.custom_symptom_types,
                   day_notes |-> orEmpty(file.day_notes)])
       IN  IF i.threw
           THEN Outcome(i.store, i.svc, FALSE, "Failed to import data.")
           ELSE LET m == initialize(i.store, FreshService)
                IN  Outcome(m.store, m.svc, FALSE, "Data imported successfully!")

(***************************************************************************)
(* SpecStore: one app instance over the localStorage service.  The page    *)
(* mounts on an empty store and initializes the service; then the service  *)
(* operations and the settings import run in any order.                    *)
(***************************************************************************)
StoreDays == {0, 1}

StoreEnds == {Absent, Some(1)}

ImportedCycle(id, day) ==
  [id |-> id, period_start_date |-> day, period_end_date |-> Absent]

\* Backup files offered to the import: well formed ones with distinct ids,
\* one of another version, and ones whose collections are missing or null.
BackupFiles ==
  {[version |-> 1, cycles |-> Arr(<<>>), symptoms |-> Arr(<<>>),
    custom_symptom_types |-> Arr(<<>>), day_notes |-> Undefined],
   [version |-> 1,
    cycles |-> Arr(<<ImportedCycle(2, 0), ImportedCycle(1, 1)>>),
    symptoms |-> Arr(<<[id |-> 1, date |-> 1, symptom_type |-> "cramps"]>>),
    custom_symptom_types |-> Arr(<<[id |-> 2, name |-> "bloating"]>>),
    day_notes |-> Arr(<<[id |-> 1, date |-> 0]>>)],
   [version |-> 2, cycles |-> Arr(<<ImportedCycle(1, 0)>>),
    symptoms |-> Arr(<<>>), custom_symptom_types |-> Arr(<<>>),
    day_notes |-> Arr(<<>>)],
   [version |-> 1, cycles |-> Undefined, symptoms |-> Arr(<<>>),
    custom_symptom_types |-> Arr(<<>>), day_notes |-> Arr(<<>>)],
   [version |-> 1, cycles |-> NotArray, symptoms |-> Arr(<<>>),
    custom_symptom_types |-> Arr(<<>>), day_notes |-> Arr(<<>>)],
   [version |-> 1, cycles |-> Arr(<<ImportedCycle(1, 0)>>),
    symptoms |-> NotArray, custom_symptom_types |-> Arr(<<>>),
    day_notes |-> Arr(<<>>)]}

dataOf(file) ==
  [cycles |-> file.cycles, symptoms |-> file.symptoms,
   custom_symptom_types |-> file.custom_symptom_types,
   day_notes |-> file.day_notes]

InitStore ==
  /\ cycles = <<>>
  /\ ovulationMarkers = <<>>
  /\ now = 0
  /\ op = "init"
  /\ args = <<>>
  /\ result = <<>>
  /\ store = initialize(EmptyStore, FreshService).store
  /\ svc = initialize(EmptyStore, FreshService).svc
  /\ app = FreshApp
  /\ calls = <<>>

Applied(name, a, o) ==
  /\ op' = name
  /\ args' = a
  /\ result' = [threw |-> o.threw, value |-> o.value]
  /\ store' = o.store
  /\ svc' = o.svc
  /\ UNCHANGED <<cycles, ovulationMarkers, now, app, calls>>

Initialize == Applied("initialize", <<>>, initialize(store, svc))

Close == Applied("close", <<>>, close(store, svc))

AddCycle ==
  /\ svc.nextIds.cycles <= MaxId
  /\ \E startDate \in StoreDays :
       Applied("addCycle", [startDate |-> startDate],
               addCycle(store, svc, startDate, Absent))

UpdateCycle ==
  \E id \in 1..MaxId, startDate \in StoreDays, endDate \in StoreEnds :
    Applied("updateCycle",
            [id |-> id, startDate |-> startDate, endDate |-> endDate],
            updateCycle(store, svc, id, startDate, endDate))

DeleteCycle ==
  \E id \in 1..MaxId :
    Applied("deleteCycle", [id |-> id], deleteCycle(store, svc, id))

AddSymptom ==
  /\ svc.nextIds.symptoms < MaxId
  /\ Applied("addSymptom", [date |-> 0, symptomType |-> "cramps"],
             addSymptom(store, svc, 0, "cramps"))

AddCustomSymptomType ==
  /\ svc.nextIds.custom_symptom_types < MaxId
  /\ Applied("addCustomSymptomType", [name |-> "acne"],
             addCustomSymptomType(store, svc, "acne"))

AddNote ==
  /\ svc.nextIds.day_notes < MaxId
  /\ Applied("addNote", [date |-> 1], addNote(store, svc, 1))

ExportAllData == Applied("exportAllData", <<>>, exportAllData(store, svc))

ClearAllData == Applied("clearAllData", <<>>, clearAllData(store, svc))

\* The data handed to importData: a backup file's collections, or what
\* exportAllData has just returned.
ImportData ==
  \E data \in {dataOf(file) : file \in BackupFiles}
              \cup (IF op = "exportAllData" /\ ~result.threw
                    THEN {result.value} ELSE {}) :
    Applied("importData", [data |-> data], importData(store, svc, data))

HandleImport ==
  \E file \in BackupFiles :
    Applied("handleImport", [file |-> file], handleImport(store, svc, file))

NextStore ==
  \/ Initialize
  \/ Close
  \/ AddCycle
  \/ UpdateCycle
  \/ DeleteCycle
  \/ AddSymptom
  \/ AddCustomSymptomType
  \/ AddNote
  \/ ExportAllData
  \/ ClearAllData
  \/ ImportData
  \/ HandleImport

SpecStore == InitStore /\ [][NextStore]_vars

(***************************************************************************)
(* Store claims                                                            *)
(***************************************************************************)
StoredIds == {store.cycles[k].id : k \in 1..Len(store.cycles)}

Returned(name) == op = name /\ ~result.threw

\* C28: after any sequence of service operations on an initialized
\* instance, the stored cycles have pairwise distinct ids, and the id that
\* addCycle returns belongs to the record it has just stored and to no
\* other stored cycle.
C28_CycleIdsDistinct ==
  /\ \A i, j \in 1..Len(store.cycles) :
       i # j => store.cycles[i].id # store.cycles[j].id
  /\ Returned("addCycle") =>
       Cardinality({k \in 1..Len(store.cycles) :
                      store.cycles[k].id = result.value}) = 1

\* A cycle added after an earlier one, on an instance that was closed.
C28_Witness ==
  /\ Returned("addCycle")
  /\ result.value = 2
  /\ StoredIds = {1, 2}
  /\ ~svc.isInitialized

Collections == {"cycles", "symptoms", "custom_symptom_types", "day_notes"}

SameRecords(s, t) == Len(s) = Len(t) /\ SetOf(s) = SetOf(t)

\* The records a file or an export holds for a collection.
RecordsIn(data, key) == IF data[key].kind = "array" THEN data[key].items ELSE <<>>

\* C25: an import that completes leaves, in every collection, exactly the
\* records of the imported data and nothing that was stored before; and
\* importing what exportAllData has just returned leaves every collection
\* with the same records as before the import.
C25_ImportIsDestructiveRestore ==
  [][/\ (op' = "importData" /\ ~result'.threw) =>
          /\ \A key \in Collections :
               store'[key] = RecordsIn(args'.data, key)
          /\ (op = "exportAllData" /\ ~result.threw /\ args'.data = result.value) =>
               \A key \in Collections : SameRecords(store[key], store'[key])
     /\ (op' = "handleImport" /\ result'.value = "Data imported successfully!") =>
          \A key \in Collections : store'[key] = RecordsIn(args'.file, key)
    ]_vars

\* An import has just restored an export of a store that held two cycles
\* added oldest first, one of them ended, and a record of every other kind.
C25_Witness ==
  /\ Returned("importData")
  /\ args.data = exportAllData(store, svc).value
  /\ Len(store.cycles) = 2
  /\ store.cycles[1].id = 2
  /\ store.cycles[1].period_start_date > store.cycles[2].period_start_date
  /\ IsPresent(store.cycles[2].period_end_date)
  /\ store.symptoms # <<>>
  /\ store.custom_symptom_types # <<>>
  /\ store.day_notes # <<>>

\* C29: when the import reports a failure (importData threw), every record
\* that was stored before the import is still stored afterwards.
C29_FailedImportKeepsData ==
  [][((op' = "handleImport" /\ result'.value = "Failed to import data.")
       \/ (op' = "importData" /\ result'.threw)) =>
        \A key \in Collections : SetOf(store[key]) \subseteq SetOf(store'[key])
    ]_vars

(***************************************************************************)
(* The PIN-protected variant: the localStorage service with ovulation      *)
(* markers, lib/crypto and the AppProvider of context/AppContext.          *)
(***************************************************************************)
LoadOrderPin == <<"cycles", "symptoms", "custom_symptom_types", "ovulation_markers">>

loadNextIdsPin(st, ids) == loadFrom(st, ids, LoadOrderPin, 1)

initializePin(st, sv) ==
  LET l == loadNextIdsPin(st, sv.nextIds) IN
  IF l.threw
  THEN Outcome(st, [sv EXCEPT !.nextIds = l.nextIds], FALSE, FALSE)
  ELSE Outcome([st EXCEPT !.initialized = TRUE],
               [sv EXCEPT !.nextIds = l.nextIds, !.isInitialized = TRUE],
               FALSE, TRUE)

\* This clearAllData removes the four collections and resets the counters;
\* it leaves isInitialized and the pt_initialized key alone.
clearAllDataPin(st, sv) ==
  LET st1 == removeItem(st, "cycles")
      st2 == removeItem(st1, "symptoms")
      st3 == removeItem(st2, "custom_symptom_types")
      st4 == removeItem(st3, "ovulation_markers")
  IN  Outcome(st4,
              [sv EXCEPT !.nextIds.cycles = 1, !.nextIds.symptoms = 1,
                         !.nextIds.custom_symptom_types = 1,
                         !.nextIds.ovulation_markers = 1],
              FALSE, <<>>)

addOvulationMarker(st, sv, cycleId, date, isConfirmed) ==
  LET newMarker == [id |-> sv.nextIds.ovulation_markers, cycle_id |-> cycleId,
                    date |-> date, is_confirmed |-> isConfirmed]
  IN  addRecord(st, sv, "ovulation_markers", newMarker)

SALT == "periodtracker_salt_v1"

\* SHA-256 of pin + SALT: distinct PINs have distinct hashes.
hashPin(pin) == <<"sha256", pin, SALT>>

isPinSetup(st) == IsPresent(st.pin_hash)

clearAllStoredData(st) == [st EXCEPT !.pin_hash = Absent]

Pins == {"1111", "2222"}

InitApp ==
  /\ cycles = <<>>
  /\ ovulationMarkers = <<>>
  /\ now = 0
  /\ op = "init"
  /\ args = <<>>
  /\ result = <<>>
  /\ store = EmptyStore
  /\ svc = FreshService
  /\ app = [FreshApp EXCEPT !.isFirstLaunch = ~isPinSetup(EmptyStore)]
  /\ calls = <<>>

\* One step of the app: the step's name, what the call returned (when it
\* returned), and the store, service, AppProvider state and calls in
\* flight that it leaves.
Stepped(name, value, st, sv, ap, cs) ==
  /\ op' = name
  /\ args' = <<>>
  /\ result' = value
  /\ store' = st
  /\ svc' = sv
  /\ app' = ap
  /\ calls' = cs
  /\ UNCHANGED <<cycles, ovulationMarkers, now>>

\* PinScreen submits a PIN only while it is shown on a visible page and no
\* earlier submit is being processed.
CanSubmit == ~app.hidden /\ ~app.isUnlocked /\ calls = <<>>

\* unlock up to its first await: verifyPin reads the stored hash, returns
\* false without one, and otherwise awaits hashPin.
Unlock ==
  /\ CanSubmit
  /\ ~app.isFirstLaunch
  /\ \E pin \in Pins :
       IF ~IsPresent(store.pin_hash)
       THEN Stepped("unlock", FALSE, store, svc, app, <<>>)
       ELSE Stepped("unlock", <<>>, store, svc, app,
                    <<[fn |-> "unlock", pc |-> "verifyPin", pin |-> pin,
                       storedHash |-> Get(store.pin_hash)]>>)

\* verifyPin resolves: a wrong PIN returns false, a right one goes on to
\* await deriveEncryptionKey.
UnlockVerified ==
  /\ calls # <<>>
  /\ calls[1].fn = "unlock"
  /\ calls[1].pc = "verifyPin"
  /\ IF calls[1].storedHash # hashPin(calls[1].pin)
     THEN Stepped("verifyPin", FALSE, store, svc, app, <<>>)
     ELSE Stepped("verifyPin", <<>>, store, svc, app,
                  <<[calls[1] EXCEPT !.pc = "deriveEncryptionKey"]>>)

\* deriveEncryptionKey resolves: db.initialize runs and, when it reports
\* success, setIsUnlocked(true).
UnlockDerived ==
  /\ calls # <<>>
  /\ calls[1].fn = "unlock"
  /\ calls[1].pc = "deriveEncryptionKey"
  /\ LET i == initializePin(store, svc) IN
     IF ~i.value
     THEN Stepped("db.initialize", FALSE, i.store, i.svc, app, <<>>)
     ELSE Stepped("db.initialize", TRUE, i.store, i.svc,
                  [app EXCEPT !.isUnlocked = TRUE], <<>>)

\* setupPin up to its first await (hashPin inside storePinHash).
SetupPin ==
  /\ CanSubmit
  /\ app.isFirstLaunch
  /\ \E pin \in Pins :
       Stepped("setupPin", <<>>, store, svc, app,
               <<[fn |-> "setupPin", pc |-> "storePinHash", pin |-> pin,
                  storedHash |-> <<>>]>>)

SetupPinStored ==
  /\ calls # <<>>
  /\ calls[1].fn = "setupPin"
  /\ calls[1].pc = "storePinHash"
  /\ Stepped("storePinHash", <<>>,
             [store EXCEPT !.pin_hash = Some(hashPin(calls[1].pin))], svc, app,
             <<[calls[1] EXCEPT !.pc = "deriveEncryptionKey"]>>)

SetupPinDerived ==
  /\ calls # <<>>
  /\ calls[1].fn = "setupPin"
  /\ calls[1].pc = "deriveEncryptionKey"
  /\ LET i == initializePin(store, svc) IN
     IF ~i.value
     THEN Stepped("setupPin.initialize", FALSE, clearAllStoredData(i.store),
                  i.svc, app, <<>>)
     ELSE Stepped("setupPin.initialize", TRUE, i.store, i.svc,
                  [app EXCEPT !.isFirstLaunch = FALSE, !.isUnlocked = TRUE],
                  <<>>)

Lock ==
  /\ app.isUnlocked
  /\ ~app.hidden
  /\ Stepped("lock", <<>>, store, close(store, svc).svc,
             [app EXCEPT !.isUnlocked = FALSE], calls)

\* The page goes to the background or comes back; the handler acts only
\* when the document is hidden.
HandleVisibilityChange ==
  IF ~app.hidden
  THEN Stepped("visibilitychange", <<>>, store, close(store, svc).svc,
               [app EXCEPT !.hidden = TRUE, !.isUnlocked = FALSE], calls)
  ELSE Stepped("visibilitychange", <<>>, store, svc,
               [app EXCEPT !.hidden = FALSE], calls)

\* resetApp, from the settings view or from the PIN screen; its awaits are
\* on calls that finish without waiting for anything.
ResetApp ==
  /\ ~app.hidden
  /\ LET c == IF isReady(svc)
              THEN clearAllDataPin(store, svc)
              ELSE Outcome(store, svc, FALSE, <<>>)
         sv == IF isReady(svc) THEN close(c.store, c.svc).svc ELSE svc
     IN  Stepped("resetApp", <<>>, clearAllStoredData(c.store), sv,
                 [app EXCEPT !.isUnlocked = FALSE, !.isFirstLaunch = TRUE],
                 calls)

\* The unlocked app records a period start, a symptom and a marker.
CanLog == app.isUnlocked /\ ~app.hidden

AddCyclePin ==
  /\ CanLog
  /\ svc.nextIds.cycles <= MaxId
  /\ LET o == addCycle(store, svc, 0, Absent)
     IN  Stepped("addCycle", o.value, o.store, o.svc, app, calls)

AddSymptomPin ==
  /\ CanLog
  /\ svc.nextIds.symptoms < MaxId
  /\ LET o == addSymptom(store, svc, 0, "cramps")
     IN  Stepped("addSymptom", o.value, o.store, o.svc, app, calls)

AddOvulationMarkerPin ==
  /\ CanLog
  /\ svc.nextIds.ovulation_markers < MaxId
  /\ store.cycles # <<>>
  /\ LET o == addOvulationMarker(store, svc, store.cycles[1].id, 1, TRUE)
     IN  Stepped("addOvulationMarker", o.value, o.store, o.svc, app, calls)

NextApp ==
  \/ Unlock
  \/ UnlockVerified
  \/ UnlockDerived
  \/ SetupPin
  \/ SetupPinStored
  \/ SetupPinDerived
  \/ Lock
  \/ HandleVisibilityChange
  \/ ResetApp
  \/ AddCyclePin
  \/ AddSymptomPin
  \/ AddOvulationMarkerPin

SpecApp == InitApp /\ [][NextApp]_vars

(***************************************************************************)
(* App claims                                                              *)
(***************************************************************************)
\* C24: once resetApp has completed, the store holds no cycles, symptoms,
\* custom symptom types or ovulation markers, and no PIN hash.
C24_ResetLeavesNothing ==
  op = "resetApp" =>
    /\ store.cycles = <<>>
    /\ store.symptoms = <<>>
    /\ store.custom_symptom_types = <<>>
    /\ store.ovulation_markers = <<>>
    /\ ~isPinSetup(store)

\* C26: while the document is hidden the app is locked and the database
\* closed, whatever unlock call was in flight when it became hidden (a PIN
\* can be submitted only on a visible page).
C26_HiddenStaysLocked ==
  app.hidden => ~app.isUnlocked /\ ~isReady(svc)

(***************************************************************************)
(* CalendarView: the day-type buttons of the day drawer.  The view keeps   *)
(* its own copy of the cycles and markers (the variables cycles and        *)
(* ovulationMarkers), refreshed by loadData; a handler works on the copy   *)
(* that was rendered when it was invoked, and every database call it       *)
(* awaits is a point where another handler can run.                        *)
(***************************************************************************)
MaxCalls == 2

\* The clock ticks once for every button press, up to MaxPresses.
MaxPresses == 3

CalDays == {0, 1}

DayTypes == {"none", "period_start", "period_end", "ovulation"}

updateCyclePin(st, sv, id, startDate, endDate) ==
  updateCycle(st, sv, id, startDate, endDate)

deleteOvulationMarker(st, sv, id) ==
  Outcome(setStoredData(st, "ovulation_markers",
            Arr(SelectSeq(st.ovulation_markers, LAMBDA m : m.id # id))),
          sv, FALSE, <<>>)

deleteOvulationMarkerByDate(st, sv, date) ==
  Outcome(setStoredData(st, "ovulation_markers",
            Arr(SelectSeq(st.ovulation_markers, LAMBDA m : m.date # date))),
          sv, FALSE, <<>>)

getAllCycles(st) == SortDesc(st.cycles)

getAllOvulationMarkers(st) == sortByDateDesc(st.ovulation_markers)

\* array.find: the first of the elements that satisfy the test (hits is
\* the set of their positions), if any.
find(s, hits) ==
  IF hits = {} THEN Absent
  ELSE Some(s[CHOOSE k \in hits : \A j \in hits : k <= j])

getSelectedDayType(dateStr, cs, ms) ==
  IF \E k \in 1..Len(cs) : cs[k].period_start_date = dateStr THEN "period_start"
  ELSE IF \E k \in 1..Len(cs) : cs[k].period_end_date = Some(dateStr)
       THEN "period_end"
  ELSE IF \E k \in 1..Len(ms) : ms[k].date = dateStr THEN "ovulation"
  ELSE "none"

canSetPeriodEnd(dateStr, cs) ==
  LET cycle == findCycleForDate(parseISO(dateStr), cs) IN
  /\ IsPresent(cycle)
  /\ parseISO(dateStr) >= parseISO(Get(cycle).period_start_date)

canSetOvulation(dateStr, cs) ==
  IsPresent(findCycleForDate(parseISO(dateStr), cs))

\* The button for newType is enabled on the rendered drawer.
isEnabled(newType, dateStr, cs, ms) ==
  CASE newType = "period_end" ->
         canSetPeriodEnd(dateStr, cs)
           \/ getSelectedDayType(dateStr, cs, ms) = "period_end"
    [] newType = "ovulation" ->
         canSetOvulation(dateStr, cs)
           \/ getSelectedDayType(dateStr, cs, ms) = "ovulation"
    [] OTHER -> TRUE

\* "First, remove any existing markers for this date", on the rendered
\* cycles of the invocation c.
removeExisting(st, sv, c) ==
  CASE c.currentType = "period_start" ->
         LET cycle == find(c.cycles,
                           {k \in 1..Len(c.cycles) :
                              c.cycles[k].period_start_date = c.dateStr})
         IN  IF IsPresent(cycle) THEN deleteCycle(st, sv, Get(cycle).id)
             ELSE Outcome(st, sv, FALSE, <<>>)
    [] c.currentType = "period_end" ->
         LET cycle == find(c.cycles,
                           {k \in 1..Len(c.cycles) :
                              c.cycles[k].period_end_date = Some(c.dateStr)})
         IN  IF IsPresent(cycle)
             THEN updateCyclePin(st, sv, Get(cycle).id,
                                 Get(cycle).period_start_date, Absent)
             ELSE Outcome(st, sv, FALSE, <<>>)
    [] c.currentType = "ovulation" ->
         deleteOvulationMarkerByDate(st, sv, c.dateStr)
    [] OTHER -> Outcome(st, sv, FALSE, <<>>)

\* "Then, add the new marker if not 'none'".
addNew(st, sv, c) ==
  CASE c.newType = "period_start" -> addCycle(st, sv, c.dateStr, Absent)
    [] c.newType = "period_end" ->
         LET cycle == findCycleForDate(parseISO(c.dateStr), c.cycles)
         IN  IF IsPresent(cycle)
             THEN updateCyclePin(st, sv, Get(cycle).id,
                                 Get(cycle).period_start_date, Some(c.dateStr))
             ELSE Outcome(st, sv, FALSE, <<>>)
    [] c.newType = "ovulation" ->
         LET cycle == findCycleForDate(parseISO(c.dateStr), c.cycles)
         IN  IF IsPresent(cycle)
             THEN LET existingMarker ==
                        find(c.ovulationMarkers,
                             {k \in 1..Len(c.ovulationMarkers) :
                                c.ovulationMarkers[k].cycle_id = Get(cycle).id})
                      d == IF IsPresent(existingMarker)
                           THEN deleteOvulationMarker(st, sv, Get(existingMarker).id)
                           ELSE Outcome(st, sv, FALSE, <<>>)
                  IN  addOvulationMarker(d.store, d.svc, Get(cycle).id,
                                         c.dateStr, TRUE)
             ELSE Outcome(st, sv, FALSE, <<>>)
    [] OTHER -> Outcome(st, sv, FALSE, <<>>)

\* The calendar of an unlocked app over an empty store.
InitCalendar ==
  /\ cycles = <<>>
  /\ ovulationMarkers = <<>>
  /\ now = 0
  /\ op = "init"
  /\ args = <<>>
  /\ result = <<>>
  /\ store = [initializePin(EmptyStore, FreshService).store
                EXCEPT !.pin_hash = Some(hashPin("1111"))]
  /\ svc = initializePin(EmptyStore, FreshService).svc
  /\ app = [isUnlocked |-> TRUE, isFirstLaunch |-> FALSE, hidden |-> FALSE]
  /\ calls = <<>>

\* The ids that the invocations in flight are still going to take.
Pending(newType) ==
  Cardinality({k \in 1..Len(calls) :
                 calls[k].newType = newType /\ calls[k].pc \in {"remove", "add"}})

RemoveAt(s, k) == SubSeq(s, 1, k - 1) \o SubSeq(s, k + 1, Len(s))

CalendarStep(name, o, cs) ==
  /\ op' = name
  /\ args' = <<>>
  /\ result' = <<>>
  /\ store' = o.store
  /\ svc' = o.svc
  /\ calls' = cs
  /\ UNCHANGED app

\* A day-type button is pressed: the handler starts with the day type and
\* the cycles and markers of the current render.
HandleDayTypeChange ==
  /\ Len(calls) < MaxCalls
  /\ now < MaxPresses
  /\ now' = now + 1
  /\ \E dateStr \in CalDays, newType \in DayTypes :
       /\ isEnabled(newType, dateStr, cycles, ovulationMarkers)
       /\ newType = "period_start" =>
            svc.nextIds.cycles + Pending("period_start") <= MaxId
       /\ newType = "ovulation" =>
            svc.nextIds.ovulation_markers + Pending("ovulation") <= MaxId
       /\ CalendarStep("handleDayTypeChange", Outcome(store, svc, FALSE, <<>>),
            Append(calls,
              [fn |-> "handleDayTypeChange", pc |-> "remove",
               dateStr |-> dateStr,
               currentType |-> getSelectedDayType(dateStr, cycles, ovulationMarkers),
               newType |-> newType, cycles |-> cycles,
               ovulationMarkers |-> ovulationMarkers]))
       /\ UNCHANGED <<cycles, ovulationMarkers>>

RemoveExisting ==
  \E k \in 1..Len(calls) :
    /\ calls[k].pc = "remove"
    /\ CalendarStep("removeExisting", removeExisting(store, svc, calls[k]),
                    [calls EXCEPT ![k].pc = "add"])
    /\ UNCHANGED <<cycles, ovulationMarkers, now>>

AddNew ==
  \E k \in 1..Len(calls) :
    /\ calls[k].pc = "add"
    /\ CalendarStep("addNew", addNew(store, svc, calls[k]),
                    [calls EXCEPT ![k].pc = "loadData"])
    /\ UNCHANGED <<cycles, ovulationMarkers, now>>

\* loadData reads the store and sets the view's state; the handler is done.
LoadData ==
  \E k \in 1..Len(calls) :
    /\ calls[k].pc = "loadData"
    /\ CalendarStep("loadData", Outcome(store, svc, FALSE, <<>>),
                    RemoveAt(calls, k))
    /\ cycles' = getAllCycles(store)
    /\ ovulationMarkers' = getAllOvulationMarkers(store)
    /\ UNCHANGED now

NextCalendar ==
  \/ HandleDayTypeChange
  \/ RemoveExisting
  \/ AddNew
  \/ LoadData

SpecCalendar == InitCalendar /\ [][NextCalendar]_vars

(***************************************************************************)
(* Calendar claims                                                         *)
(***************************************************************************)
\* C27: no two stored cycles share a period_start_date, also when day-type
\* handlers overlap.
C27_NoSharedStartDate ==
  \A i, j \in 1..Len(store.cycles) :
    i # j => store.cycles[i].period_start_date # store.cycles[j].period_start_date
====
